---- MODULE Spec2Model ----
(***************************************************************************)
(* A model of the CLIF Python <-> C++ value-marshaling primitives:         *)
(* clif/python/types.cc, clif/python/stltypes.h, clif/python/slots.cc and  *)
(* clif/python/pyproto.cc.                                                 *)
(*                                                                         *)
(* The host runtime is modelled by its pending-error indicator, by the     *)
(* shapes of the PyObjects handed to the conversions and by reference      *)
(* counts.  Each conversion function of the source is an operator that     *)
(* threads the pending error through exactly the Python C API calls the    *)
(* source makes; the procedures whose order of steps matters (the variant  *)
(* search, Iterator::Next, callback::Func::operator()) are state machines. *)
(***************************************************************************)
EXTENDS Integers, Sequences, FiniteSets, TLC

VARIABLES
    at,        \* position of the procedure being run
    err,       \* the host runtime's pending error ("none" when clear)
    py,        \* the PyObject* argument of the running conversion
    alts,      \* variant search: the declared alternatives U...
    I,         \* variant search: the template index I
    v,         \* variant search: the destination std::variant
    ret,       \* the value returned by the finished call
    hist,      \* what the running call did so far, in order
    it,        \* Iterator: [self_, it_, c, owners]
    io,        \* a finished conversion or adapter call: its inputs and result
    cb         \* callback::Func::operator(): its arguments, locals and heap

vars == <<at, err, py, alts, I, v, ret, hist, it, io, cb>>

----------------------------------------------------------------------------
(* Integers.  TLC's integers are 32 bits wide and the conversions compare  *)
(* against LONG_MAX and ULONG_MAX, so an integer is written k:d, meaning   *)
(* Anchor(k) + d with the anchors 0, +-2^31, +-2^32, +-2^63, +-2^64 and a  *)
(* displacement |d| < 2^30.  Every integer near an anchor has exactly one  *)
(* such name and the order of the names is the order of the integers.      *)

Z(k, d) == [k |-> k, d |-> d]

ZLess(a, b) == a.k < b.k \/ (a.k = b.k /\ a.d < b.d)

ZLeq(a, b) == a = b \/ ZLess(a, b)

Zero == Z(0, 0)

MinusOne == Z(0, -1)

\* <climits> on the LP64 targets the library is built for.
SCHAR_MIN == Z(0, -128)
SCHAR_MAX == Z(0, 127)
UCHAR_MAX == Z(0, 255)
SHRT_MIN == Z(0, -32768)
SHRT_MAX == Z(0, 32767)
USHRT_MAX == Z(0, 65535)
INT_MIN == Z(-1, 0)
INT_MAX == Z(1, -1)
UINT_MAX == Z(2, -1)
LONG_MIN == Z(-3, 0)
LONG_MAX == Z(3, -1)
ULONG_MAX == Z(4, -1)

----------------------------------------------------------------------------
(* Host values.  A PyObject is described by its shape:                     *)
(*   kind   the Python type                                                *)
(*   z      the value of an int or bool, the arity of a callable           *)
(*   items  the elements of a list, tuple, generator or dict (as pairs)    *)
(*   bad    a generator that raises after its last item; a user sequence   *)
(*          ("seq") whose __getitem__ raises                               *)

HV(kind, z, items, bad) == [kind |-> kind, z |-> z, items |-> items, bad |-> bad]

PyNone == HV("none", Zero, <<>>, FALSE)
PyTrue == HV("bool", Z(0, 1), <<>>, FALSE)
PyFalse == HV("bool", Zero, <<>>, FALSE)
PyInt(k, d) == HV("int", Z(k, d), <<>>, FALSE)
PyStr(d) == HV("str", Z(0, d), <<>>, FALSE)
PyBytes(d) == HV("bytes", Z(0, d), <<>>, FALSE)
PyFloat == HV("float", Zero, <<>>, FALSE)
PyList(s) == HV("list", Zero, s, FALSE)
PySeq(s, bad) == HV("seq", Zero, s, bad)
PyTuple(s) == HV("tuple", Zero, s, FALSE)
PyGen(s, bad) == HV("gen", Zero, s, bad)
PyDict(s) == HV("dict", Zero, s, FALSE)
PyCallable(n) == HV("callable", Z(0, n), <<>>, FALSE)
PyObj == HV("obj", Zero, <<>>, FALSE)

\* The null PyObject*.
Null == HV("NULL", Zero, <<>>, FALSE)

\* Pending errors of the host runtime.
NoErr == "none"

PyErr_Occurred(e) == e # NoErr

\* Type checks of the C API.  bool is a subclass of int.
PyLong_Check(o) == o.kind \in {"int", "bool"}

PyLong_CheckExact(o) == o.kind = "int"

PyBool_Check(o) == o.kind = "bool"

PyUnicode_Check(o) == o.kind = "str"

PyBytes_Check(o) == o.kind = "bytes"

\* PyLong_AsLong / PyLong_AsSsize_t on an int: the value, or -1 with
\* OverflowError when it does not fit a long.  A success leaves the pending
\* error as it was.
PyLong_AsLong(o, e) ==
    IF ZLeq(LONG_MIN, o.z) /\ ZLeq(o.z, LONG_MAX)
    THEN [v |-> o.z, err |-> e]
    ELSE [v |-> MinusOne, err |-> "OverflowError"]

\* PyLong_AsUnsignedLong on an int: (unsigned long)-1 with OverflowError for
\* a negative value or one above ULONG_MAX.
PyLong_AsUnsignedLong(o, e) ==
    IF ZLeq(Zero, o.z) /\ ZLeq(o.z, ULONG_MAX)
    THEN [v |-> o.z, err |-> e]
    ELSE [v |-> ULONG_MAX, err |-> "OverflowError"]

\* PyLong_AsLong on any object: TypeError for what is no int and has no
\* __index__.
PyLong_AsLongObj(o, e) ==
    IF PyLong_Check(o) THEN PyLong_AsLong(o, e)
    ELSE [v |-> MinusOne, err |-> "TypeError"]

\* PyLong_AsSsize_t: TypeError for what is no int, OverflowError for an int
\* that does not fit Py_ssize_t (64 bits).
PyLong_AsSsize_t(o, e) ==
    IF PyLong_Check(o) THEN PyLong_AsLong(o, e)
    ELSE [v |-> MinusOne, err |-> "TypeError"]

\* PyObject_IsTrue of an int or bool.
PyObject_IsTrue(o) == IF o.z = Zero THEN Zero ELSE Z(0, 1)

\* PyObject_Hash of an int: the value modulo 2^61 - 1 with the sign of the
\* value, -2 for -1.  2^63 is 4 and 2^64 is 8 modulo 2^61 - 1.
PyObject_Hash(o) ==
    CASE o.z = MinusOne -> Z(0, -2)
      [] o.z.k = 3 -> Z(0, 4 + o.z.d)
      [] o.z.k = -3 -> Z(0, o.z.d - 4)
      [] o.z.k = 4 -> Z(0, 8 + o.z.d)
      [] o.z.k = -4 -> Z(0, o.z.d - 8)
      [] OTHER -> o.z

\* static_cast<int> of a long: the value modulo 2^32.
CastInt(z) ==
    CASE z.k = 0 -> z
      [] z.k = 1 -> IF z.d < 0 THEN z ELSE Z(-1, z.d)
      [] z.k = -1 -> IF z.d >= 0 THEN z ELSE Z(1, z.d)
      [] OTHER -> Z(0, z.d)

----------------------------------------------------------------------------
(* Native values.  t is the shape, z the number held by an integer or bool *)
(* (the active index of a variant, the content of a string), s the         *)
(* elements of a container, pair or tuple, or the payload of an optional,  *)
(* unique_ptr, variant or std::function (empty when there is none).        *)

NV(t, z, s) == [t |-> t, z |-> z, s |-> s]

NInt(z) == NV("int", z, <<>>)
NBool(b) == NV("bool", IF b THEN Z(0, 1) ELSE Zero, <<>>)
NStr(z) == NV("str", z, <<>>)
NSeq(s) == NV("seq", Zero, s)
NOpt(s) == NV("opt", Zero, s)
NPtr(s) == NV("ptr", Zero, s)
NVar(i, s) == NV("var", Z(0, i), s)
NFn(s) == NV("fn", Zero, s)

\* A wrapped class instance (the class has no default constructor).
NUser == NV("user", Zero, <<>>)

\* A scalar that was default-initialized and never written.
Indeterminate == NV("raw", Zero, <<>>)

\* Native types are written as tuples headed by the type's name:
\* <<"int">>, <<"optional", T>>, <<"pair", T, U>>, <<"vector", T>>,
\* <<"array", T, N>>, <<"tuple", <<T...>>>>, <<"variant", <<U...>>>>,
\* <<"function", n>>.
IntTypes == {"int", "short", "schar", "uchar", "ushort", "uint", "ulong", "long"}

\* absl::int128 and absl::uint128.
WideTypes == {"int128", "uint128"}

RECURSIVE ValueInit(_)
\* T(): what emplace<I>() and c->emplace() construct.
ValueInit(T) ==
    CASE T[1] \in IntTypes \cup WideTypes -> NInt(Zero)
      [] T[1] = "bool" -> NBool(FALSE)
      [] T[1] = "string" -> NStr(Zero)
      [] T[1] = "optional" -> NOpt(<<>>)
      [] T[1] = "unique_ptr" -> NPtr(<<>>)
      [] T[1] = "pair" -> NSeq(<<ValueInit(T[2]), ValueInit(T[3])>>)
      [] T[1] = "tuple" -> NSeq([j \in 1..Len(T[2]) |-> ValueInit(T[2][j])])
      [] T[1] = "array" -> NSeq([j \in 1..T[3] |-> ValueInit(T[2])])
      [] T[1] = "variant" -> NVar(0, <<ValueInit(T[2][1])>>)
      [] T[1] = "function" -> NFn(<<>>)
      [] T[1] \in {"UserOpt", "UserPtr"} -> NUser
      [] OTHER -> NSeq(<<>>)

RECURSIVE DefaultInit(_)
\* `T x;` and `new T`: scalars are left indeterminate.
DefaultInit(T) ==
    CASE T[1] \in IntTypes \cup WideTypes \cup {"bool"} -> Indeterminate
      [] T[1] = "pair" -> NSeq(<<DefaultInit(T[2]), DefaultInit(T[3])>>)
      [] T[1] = "tuple" -> NSeq([j \in 1..Len(T[2]) |-> DefaultInit(T[2][j])])
      [] T[1] = "array" -> NSeq([j \in 1..T[3] |-> DefaultInit(T[2])])
      [] OTHER -> ValueInit(T)

(* The outcome of a FromHost call Clif_PyObjAs(py, c):                     *)
(*   ok    the bool returned                                               *)
(*   c     what the destination holds afterwards                           *)
(*   err   the pending error afterwards                                    *)
(*   din   the net change of py's reference count                          *)
(*   tmp   the references to other objects the call obtained and did not   *)
(*         release                                                         *)
Res(ok, c, e) == [ok |-> ok, c |-> c, err |-> e, din |-> 0, tmp |-> 0]

----------------------------------------------------------------------------
(* types.cc: scalar FromHost.                                              *)

Clif_PyObjAs_int(o, c, e) ==
    IF PyLong_Check(o)
    THEN LET i == PyLong_AsLong(o, e)
         IN  IF i.v = MinusOne /\ PyErr_Occurred(i.err) THEN Res(FALSE, c, i.err)
             ELSE IF ZLess(INT_MAX, i.v) \/ ZLess(i.v, INT_MIN)
                  THEN Res(FALSE, c, "ValueError")
                  ELSE Res(TRUE, NInt(i.v), i.err)
    ELSE Res(FALSE, c, "TypeError")

Clif_PyObjAs_long(o, c, e) ==
    IF PyLong_Check(o)
    THEN LET i == PyLong_AsLong(o, e)
         IN  Res(~PyErr_Occurred(i.err), NInt(i.v), i.err)
    ELSE Res(FALSE, c, "TypeError")

Clif_PyObjAs_ulong(o, c, e) ==
    IF PyLong_Check(o)
    THEN LET i == PyLong_AsUnsignedLong(o, e)
         IN  Res(~PyErr_Occurred(i.err), NInt(i.v), i.err)
    ELSE Res(FALSE, c, "TypeError")

Clif_PyObjAs_short(o, c, e) ==
    LET i == Clif_PyObjAs_long(o, Indeterminate, e)
    IN  IF ~i.ok THEN Res(FALSE, c, i.err)
        ELSE IF ZLess(SHRT_MAX, i.c.z) \/ ZLess(i.c.z, SHRT_MIN)
             THEN Res(FALSE, c, "ValueError")
             ELSE Res(TRUE, NInt(i.c.z), i.err)

Clif_PyObjAs_schar(o, c, e) ==
    LET i == Clif_PyObjAs_long(o, Indeterminate, e)
    IN  IF ~i.ok THEN Res(FALSE, c, i.err)
        ELSE IF ZLess(i.c.z, SCHAR_MIN) \/ ZLess(SCHAR_MAX, i.c.z)
             THEN Res(FALSE, c, "ValueError")
             ELSE Res(TRUE, NInt(i.c.z), i.err)

\* A conversion that narrows without the range test.
Clif_PyObjAs_uchar_Truncating(o, c, e) ==
    LET i == Clif_PyObjAs_ulong(o, Indeterminate, e)
    IN  IF ~i.ok THEN Res(FALSE, c, i.err)
        ELSE Res(TRUE, NInt(IF i.c.z.k = 0 THEN Z(0, i.c.z.d % 256) ELSE Zero), i.err)

Clif_PyObjAs_uchar(o, c, e) ==
    LET i == Clif_PyObjAs_ulong(o, Indeterminate, e)
    IN  IF ~i.ok THEN Res(FALSE, c, i.err)
        ELSE IF ZLess(UCHAR_MAX, i.c.z)
             THEN Res(FALSE, c, "ValueError")
             ELSE Res(TRUE, NInt(i.c.z), i.err)

Clif_PyObjAs_ushort(o, c, e) ==
    IF PyLong_Check(o)
    THEN LET i == PyLong_AsUnsignedLong(o, e)
         IN  IF PyErr_Occurred(i.err) THEN Res(FALSE, c, i.err)
             ELSE IF ZLess(USHRT_MAX, i.v) THEN Res(FALSE, c, "ValueError")
                  ELSE Res(TRUE, NInt(i.v), i.err)
    ELSE Res(FALSE, c, "TypeError")

Clif_PyObjAs_uint(o, c, e) ==
    IF PyLong_Check(o)
    THEN LET i == PyLong_AsUnsignedLong(o, e)
         IN  IF PyErr_Occurred(i.err) THEN Res(FALSE, c, i.err)
             ELSE IF ZLess(UINT_MAX, i.v) THEN Res(FALSE, c, "ValueError")
                  ELSE Res(TRUE, NInt(i.v), i.err)
    ELSE Res(FALSE, c, "TypeError")

\* A 128-bit value that wrapped around: z modulo 2^128.
NWrapped(z) == NV("wrapped", z, <<>>)

\* int128: lo and hi are read from PyNumber_And(py, mask) and
\* PyNumber_Rshift(py, 64); the mask, the 64 and the two results are new
\* references that nothing releases.  Every int of the model fits 128 bits.
Clif_PyObjAs_int128(o, c, e) ==
    IF PyLong_Check(o) THEN [Res(TRUE, NInt(o.z), e) EXCEPT !.tmp = 4]
    ELSE Res(FALSE, c, "TypeError")

\* uint128: hi is read with PyLong_AsUnsignedLongLong, which fails for the
\* -1 a negative int shifts to; *c is assigned all the same.
Clif_PyObjAs_uint128(o, c, e) ==
    IF PyLong_Check(o)
    THEN IF ZLess(o.z, Zero)
         THEN [Res(FALSE, NWrapped(o.z), "OverflowError") EXCEPT !.tmp = 4]
         ELSE [Res(TRUE, NInt(o.z), e) EXCEPT !.tmp = 4]
    ELSE Res(FALSE, c, "TypeError")

Clif_PyObjAs_bool(o, c, e) ==
    IF ~PyBool_Check(o) THEN Res(FALSE, c, "TypeError")
    ELSE Res(TRUE, NBool(o = PyTrue), e)

\* py::ObjToStr, the Python 3 branch: str or bytes, copied into the string.
\* (PyUnicode_AsUTF8AndSize fails only for text with lone surrogates, which
\* the shapes above do not include.)
ObjToStr(o, c, e) ==
    IF PyUnicode_Check(o) \/ PyBytes_Check(o) THEN Res(TRUE, NStr(o.z), e)
    ELSE Res(FALSE, c, "TypeError")

Clif_PyObjAs_string(o, c, e) == ObjToStr(o, c, e)

----------------------------------------------------------------------------
(* The C API calls the aggregate conversions make.                         *)

\* A str of d characters is d one-character strs, a bytes d small ints; a
\* dict iterates over its keys.
ItemsOf(o) ==
    CASE o.kind \in {"list", "tuple", "gen", "seq"} -> o.items
      [] o.kind = "str" -> [j \in 1..o.z.d |-> PyStr(1)]
      [] o.kind = "bytes" -> [j \in 1..o.z.d |-> PyInt(0, 97)]
      [] o.kind = "dict" -> [j \in 1..Len(o.items) |-> o.items[j].items[1]]
      [] OTHER -> <<>>

\* PySequence_Length: -1 with TypeError for what is no sequence.
PySequence_Length(o, e) ==
    IF o.kind \in {"list", "tuple", "seq", "str", "bytes"}
    THEN [v |-> Len(ItemsOf(o)), err |-> e]
    ELSE [v |-> -1, err |-> "TypeError"]

\* PySequence_ITEM: a new reference, or NULL with the error __getitem__ raised.
PySequence_ITEM(o, i, e) ==
    IF o.kind = "seq" /\ o.bad THEN [v |-> Null, err |-> "IndexError"]
    ELSE [v |-> ItemsOf(o)[i + 1], err |-> e]

\* PyTuple_Size: -1 with SystemError (PyErr_BadInternalCall) for a non-tuple.
PyTuple_Size(o, e) ==
    IF o.kind = "tuple" THEN [v |-> Len(o.items), err |-> e]
    ELSE [v |-> -1, err |-> "SystemError"]

\* PyObject_GetIter: TypeError for what is not iterable.
Iterable(o) == o.kind \in {"list", "tuple", "gen", "seq", "str", "bytes", "dict"}

\* What the iterator yields before PyIter_Next returns NULL, and whether that
\* NULL comes with an error (the iteration raised).
IterItems(o) == IF o.bad THEN (IF o.kind = "seq" THEN <<>> ELSE o.items) ELSE ItemsOf(o)

IterRaises(o) == o.bad

\* PyObject_CallMethod(py, "items"): a new list of (key, value) tuples.
CallItems(o, e) ==
    IF o.kind = "dict" THEN [v |-> PyList(o.items), err |-> e]
    ELSE [v |-> Null, err |-> "AttributeError"]

PyCallable_Check(o) == o.kind = "callable"

\* CallableNeedsNarguments (clif/python/runtime): whether the callable can be
\* called with n positional arguments; TypeError when not.
CallableNeedsNarguments(o, n, e) ==
    IF o.z.d = n THEN [v |-> TRUE, err |-> e]
    ELSE [v |-> FALSE, err |-> "TypeError"]

\* A conversion supplied by the library of a wrapped class and found by ADL
\* (HasNonClifConversion): it accepts the instances of its class.
UserConv(o, e) ==
    IF o.kind = "obj" THEN [ok |-> TRUE, err |-> e]
    ELSE [ok |-> FALSE, err |-> "TypeError"]

----------------------------------------------------------------------------
(* stltypes.h: FromHost of the std types.                                  *)

\* Inserters that put the element in front.
Add_Front(how, acc, x) ==
    [c |-> NSeq(<<x>> \o acc.c.s), index |-> acc.index + 1]

\* The inserters handed to IterToCont.  acc is [c, index].
Add(how, acc, x) ==
    CASE how = "push_back" ->
           [acc EXCEPT !.c = NSeq(Append(acc.c.s, x))]
      [] how = "insert" ->
           IF \E j \in 1..Len(acc.c.s) : acc.c.s[j] = x THEN acc
           ELSE [acc EXCEPT !.c = NSeq(Append(acc.c.s, x))]
      [] how = "map" ->
           IF \E j \in 1..Len(acc.c.s) : acc.c.s[j].s[1] = x.s[1]
           THEN [acc EXCEPT !.c = NSeq([j \in 1..Len(acc.c.s) |->
                     IF acc.c.s[j].s[1] = x.s[1] THEN x ELSE acc.c.s[j]])]
           ELSE [acc EXCEPT !.c = NSeq(Append(acc.c.s, x))]
      [] how = "array" ->
           [c |-> IF acc.index < Len(acc.c.s)
                  THEN NSeq([acc.c.s EXCEPT ![acc.index + 1] = x])
                  ELSE acc.c,
            index |-> acc.index + 1]

RECURSIVE Clif_PyObjAs(_, _, _, _)
RECURSIVE IterLoop(_, _, _, _, _, _, _, _)
RECURSIVE TupleAs(_, _, _, _, _)
RECURSIVE PyObjAsVariantTryAll(_, _, _, _, _)

\* The while loop of py::IterToCont, from the k-th PyIter_Next on.  tmp
\* counts the references held: the iterator's, and what the element
\* conversions left behind.
IterLoop(T, how, o, k, acc, e, tmp, n) ==
    IF k >= Len(IterItems(o))
    THEN LET e1 == IF IterRaises(o) THEN "RuntimeError" ELSE e
         IN  [ok |-> ~PyErr_Occurred(e1), c |-> acc.c, index |-> acc.index,
              err |-> e1, din |-> 0, tmp |-> tmp - 1, fetched |-> n]
    ELSE LET el == IterItems(o)[k + 1]
             r == Clif_PyObjAs(T, el, DefaultInit(T), e)
             held == tmp + r.tmp + (1 + r.din - 1)
         IN  IF ~r.ok
             THEN [ok |-> FALSE, c |-> acc.c, index |-> acc.index,
                   err |-> r.err, din |-> 0, tmp |-> held - 1, fetched |-> n + 1]
             ELSE IterLoop(T, how, o, k + 1, Add(how, acc, r.c), r.err, held, n + 1)

IterToCont(T, how, o, acc, e) ==
    IF ~Iterable(o)
    THEN [ok |-> FALSE, c |-> acc.c, index |-> acc.index, err |-> "TypeError",
          din |-> 0, tmp |-> 0, fetched |-> 0]
    ELSE IterLoop(T, how, o, 0, acc, e, 1, 0)

ItemsToMap(T, U, o, acc, e) ==
    LET items == CallItems(o, e)
    IN  IF items.v = Null
        THEN [ok |-> FALSE, c |-> acc.c, index |-> acc.index, err |-> items.err,
              din |-> 0, tmp |-> 0, fetched |-> 0]
        ELSE LET r == IterToCont(<<"pair", T, U>>, "map", items.v, acc, items.err)
             IN  [r EXCEPT !.tmp = r.tmp + (1 + r.din - 1), !.din = 0]

\* py::Tuple<I>::As, I counting down to 0.
TupleAs(i, Ts, o, c, e) ==
    IF i = 0 THEN Res(TRUE, c, e)
    ELSE LET r == Clif_PyObjAs(Ts[i], o.items[i], c.s[i], e)
             c1 == NSeq([c.s EXCEPT ![i] = r.c])
         IN  IF ~r.ok THEN [Res(FALSE, c1, r.err) EXCEPT !.tmp = r.tmp + r.din]
             ELSE LET q == TupleAs(i - 1, Ts, o, c1, r.err)
                  IN  [q EXCEPT !.tmp = q.tmp + r.tmp + r.din]

Clif_PyObjAs_tuple(Ts, o, c, e) ==
    LET len == PyTuple_Size(o, e)
    IN  IF len.v # Len(Ts)
        THEN Res(FALSE, c, IF len.v # -1 THEN "ValueError" ELSE len.err)
        ELSE TupleAs(Len(Ts), Ts, o, c, len.err)

\* A conversion that converts the first item straight into c->first.
Clif_PyObjAs_pair_InPlace(T, U, o, c, e) ==
    LET len == PySequence_Length(o, e)
    IN  IF len.v # 2
        THEN Res(FALSE, c, IF len.v # -1 THEN "ValueError" ELSE len.err)
        ELSE
        LET item0 == PySequence_ITEM(o, 0, len.err)
        IN  IF item0.v = Null THEN Res(FALSE, c, item0.err)
            ELSE
            LET k == Clif_PyObjAs(T, item0.v, c.s[1], item0.err)
                c1 == NSeq(<<k.c, c.s[2]>>)
            IN  IF ~k.ok THEN Res(FALSE, c1, k.err)
                ELSE
                LET item1 == PySequence_ITEM(o, 1, k.err)
                IN  IF item1.v = Null THEN Res(FALSE, c1, item1.err)
                    ELSE
                    LET w == Clif_PyObjAs(U, item1.v, c.s[2], item1.err)
                    IN  Res(w.ok, NSeq(<<k.c, w.c>>), w.err)

Clif_PyObjAs_pair(T, U, o, c, e) ==
    LET len == PySequence_Length(o, e)
    IN  IF len.v # 2
        THEN Res(FALSE, c, IF len.v # -1 THEN "ValueError" ELSE len.err)
        ELSE
        LET item0 == PySequence_ITEM(o, 0, len.err)
        IN  IF item0.v = Null THEN Res(FALSE, c, item0.err)
            ELSE
            LET k == Clif_PyObjAs(T, item0.v, DefaultInit(T), item0.err)
                t0 == k.tmp + (1 + k.din - 1)
            IN  IF ~k.ok THEN [Res(FALSE, c, k.err) EXCEPT !.tmp = t0]
                ELSE
                LET item1 == PySequence_ITEM(o, 1, k.err)
                IN  IF item1.v = Null
                    THEN [Res(FALSE, c, item1.err) EXCEPT !.tmp = t0]
                    ELSE
                    LET w == Clif_PyObjAs(U, item1.v, DefaultInit(U), item1.err)
                        t1 == t0 + w.tmp + (1 + w.din - 1)
                    IN  IF ~w.ok THEN [Res(FALSE, c, w.err) EXCEPT !.tmp = t1]
                        ELSE [Res(TRUE, NSeq(<<k.c, w.c>>), w.err)
                                EXCEPT !.tmp = t1]

Clif_PyObjAs_optional(T, o, c, e) ==
    IF o = PyNone THEN Res(TRUE, NOpt(<<>>), e)
    ELSE LET r == Clif_PyObjAs(T, o, ValueInit(T), e)
         IN  IF ~r.ok THEN [r EXCEPT !.c = NOpt(<<>>)]
             ELSE [r EXCEPT !.c = NOpt(<<r.c>>)]

Clif_PyObjAs_unique_ptr(T, o, c, e) ==
    LET r == Clif_PyObjAs(T, o, DefaultInit(T), e)
    IN  IF ~r.ok THEN [r EXCEPT !.c = c]
        ELSE [r EXCEPT !.c = NPtr(<<r.c>>)]

\* A conversion that appends to what the vector holds.
Clif_PyObjAs_vector_NoClear(T, o, c, e) ==
    IterToCont(T, "push_back", o, [c |-> c, index |-> 0], e)

Clif_PyObjAs_vector(T, o, c, e) ==
    IterToCont(T, "push_back", o, [c |-> NSeq(<<>>), index |-> 0], e)

Clif_PyObjAs_set(T, o, c, e) ==
    IterToCont(T, "insert", o, [c |-> NSeq(<<>>), index |-> 0], e)

Clif_PyObjAs_map(T, U, o, c, e) ==
    ItemsToMap(T, U, o, [c |-> NSeq(<<>>), index |-> 0], e)

Clif_PyObjAs_array(T, N, o, c, e) ==
    LET rval == IterToCont(T, "array", o, [c |-> c, index |-> 0], e)
    IN  IF rval.index # N THEN [rval EXCEPT !.ok = FALSE, !.err = "ValueError"]
        ELSE rval

\* The conversion assigning *c before the arity is known to match.
Clif_PyObjAs_function_EarlyAssign(n, o, c, e) ==
    IF ~PyCallable_Check(o) THEN Res(FALSE, c, "TypeError")
    ELSE LET a == CallableNeedsNarguments(o, n, e)
         IN  [Res(a.v, NFn(<<NV("callable", o.z, <<>>)>>), a.err)
                EXCEPT !.din = 1]

Clif_PyObjAs_function(n, o, c, e) ==
    IF ~PyCallable_Check(o) THEN Res(FALSE, c, "TypeError")
    ELSE LET a == CallableNeedsNarguments(o, n, e)
         IN  IF ~a.v THEN Res(FALSE, c, a.err)
             ELSE [Res(TRUE, NFn(<<NV("callable", o.z, <<>>)>>), a.err)
                     EXCEPT !.din = 1]

\* Which Convert overload overload resolution picks for alternative T:
\* Priority<0> for a default-constructible T with a conversion,
\* Priority<1> / Priority<2> for a class converted through std::optional<T> /
\* std::unique_ptr<T>.
Priority(T) ==
    CASE T[1] = "UserOpt" -> 1
      [] T[1] = "UserPtr" -> 2
      [] OTHER -> 0

\* clif_std_py_variant::Convert<I, T>, the three overloads.
Convert(i, T, o, w, e) ==
    CASE Priority(T) = 0 ->
           LET r == Clif_PyObjAs(T, o, ValueInit(T), e)
           IN  [r EXCEPT !.c = NVar(i, <<r.c>>)]
      [] Priority(T) = 1 ->
           LET r == UserConv(o, e)
           IN  IF r.ok THEN Res(TRUE, NVar(i, <<NUser>>), r.err)
               ELSE Res(FALSE, w, r.err)
      [] Priority(T) = 2 ->
           LET r == UserConv(o, e)
           IN  IF r.ok THEN Res(TRUE, NVar(i, <<NUser>>), r.err)
               ELSE Res(FALSE, w, r.err)

PyObjAsVariantAt(i, U, o, w, e) == Convert(i, U[i + 1], o, w, e)

\* PyErr_Clear() left out.
PyErr_Clear_Missing(e) == e

\* PyErr_Clear().
PyErr_Clear(e) == NoErr

\* PyObjAsVariantTryAll<I>, both overloads.
PyObjAsVariantTryAll(i, U, o, w, e) ==
    IF i = Len(U) THEN Res(FALSE, w, "TypeError")
    ELSE LET r == PyObjAsVariantAt(i, U, o, w, e)
         IN  IF r.ok THEN r
             ELSE LET q == PyObjAsVariantTryAll(i + 1, U, o, r.c, PyErr_Clear(r.err))
                  IN  [q EXCEPT !.tmp = q.tmp + r.tmp, !.din = q.din + r.din]

Clif_PyObjAs_variant(U, o, c, e) == PyObjAsVariantTryAll(0, U, o, c, e)

\* Overload resolution of Clif_PyObjAs on the destination type.
Clif_PyObjAs(T, o, c, e) ==
    CASE T[1] = "int" -> Clif_PyObjAs_int(o, c, e)
      [] T[1] = "short" -> Clif_PyObjAs_short(o, c, e)
      [] T[1] = "schar" -> Clif_PyObjAs_schar(o, c, e)
      [] T[1] = "uchar" -> Clif_PyObjAs_uchar(o, c, e)
      [] T[1] = "ushort" -> Clif_PyObjAs_ushort(o, c, e)
      [] T[1] = "uint" -> Clif_PyObjAs_uint(o, c, e)
      [] T[1] = "ulong" -> Clif_PyObjAs_ulong(o, c, e)
      [] T[1] = "long" -> Clif_PyObjAs_long(o, c, e)
      [] T[1] = "int128" -> Clif_PyObjAs_int128(o, c, e)
      [] T[1] = "uint128" -> Clif_PyObjAs_uint128(o, c, e)
      [] T[1] = "bool" -> Clif_PyObjAs_bool(o, c, e)
      [] T[1] = "string" -> Clif_PyObjAs_string(o, c, e)
      [] T[1] = "optional" -> Clif_PyObjAs_optional(T[2], o, c, e)
      [] T[1] = "unique_ptr" -> Clif_PyObjAs_unique_ptr(T[2], o, c, e)
      [] T[1] = "pair" -> Clif_PyObjAs_pair(T[2], T[3], o, c, e)
      [] T[1] = "tuple" -> Clif_PyObjAs_tuple(T[2], o, c, e)
      [] T[1] = "vector" -> Clif_PyObjAs_vector(T[2], o, c, e)
      [] T[1] = "set" -> Clif_PyObjAs_set(T[2], o, c, e)
      [] T[1] = "map" -> Clif_PyObjAs_map(T[2], T[3], o, c, e)
      [] T[1] = "array" -> Clif_PyObjAs_array(T[2], T[3], o, c, e)
      [] T[1] = "function" -> Clif_PyObjAs_function(T[2], o, c, e)
      [] T[1] = "variant" -> Clif_PyObjAs_variant(T[2], o, c, e)

----------------------------------------------------------------------------
(* slots.cc: the result adapters.  Each takes the reference to res the     *)
(* slot's caller obtained.  An adapter yields                              *)
(*   ret   the value it returns                                            *)
(*   err   the pending error afterwards                                    *)
(*   log   the C API calls it made on res, in the order made               *)

\* Py_DECREF before PyObject_Hash.
as_hash_EarlyRelease(res, e) ==
    IF PyLong_Check(res)
    THEN LET i == PyLong_AsLong(res, e)
         IN  IF i.v = MinusOne /\ PyErr_Occurred(i.err) /\ i.err = "OverflowError"
             THEN [ret |-> PyObject_Hash(res), err |-> PyErr_Clear(i.err),
                   log |-> <<"PyLong_Check", "PyLong_AsLong", "Py_DECREF",
                             "PyObject_Hash">>]
             ELSE [ret |-> i.v, err |-> i.err,
                   log |-> <<"PyLong_Check", "PyLong_AsLong", "Py_DECREF">>]
    ELSE [ret |-> MinusOne, err |-> "TypeError",
          log |-> <<"PyLong_Check", "Py_DECREF">>]

as_size(res, e) ==
    LET size == PyLong_AsSsize_t(res, e)
    IN  [ret |-> size.v,
         err |-> IF ZLess(size.v, Zero) /\ ~PyErr_Occurred(size.err)
                 THEN "ValueError" ELSE size.err,
         log |-> <<"PyLong_AsSsize_t", "Py_DECREF">>]

as_bool(res, e) ==
    IF PyLong_CheckExact(res) \/ PyBool_Check(res)
    THEN [ret |-> PyObject_IsTrue(res), err |-> e,
          log |-> <<"PyLong_CheckExact", "PyObject_IsTrue", "Py_DECREF">>]
    ELSE [ret |-> MinusOne, err |-> "ValueError",
          log |-> <<"PyLong_CheckExact", "Py_DECREF">>]

as_hash(res, e) ==
    IF PyLong_Check(res)
    THEN LET i == PyLong_AsLong(res, e)
         IN  IF i.v = MinusOne /\ PyErr_Occurred(i.err) /\ i.err = "OverflowError"
             THEN [ret |-> PyObject_Hash(res), err |-> PyErr_Clear(i.err),
                   log |-> <<"PyLong_Check", "PyLong_AsLong", "PyObject_Hash",
                             "Py_DECREF">>]
             ELSE [ret |-> i.v, err |-> i.err,
                   log |-> <<"PyLong_Check", "PyLong_AsLong", "Py_DECREF">>]
    ELSE [ret |-> MinusOne, err |-> "TypeError",
          log |-> <<"PyLong_Check", "Py_DECREF">>]

as_cmp(res, e) ==
    LET i == PyLong_AsLongObj(res, e)
    IN  IF i.v = MinusOne /\ PyErr_Occurred(i.err)
        THEN [ret |-> Z(0, -2), err |-> "ValueError",
              log |-> <<"PyLong_AsLong", "Py_DECREF">>]
        ELSE [ret |-> CastInt(i.v), err |-> i.err,
              log |-> <<"PyLong_AsLong", "Py_DECREF">>]

\* ignore: Py_XDECREF, then only the pointer is compared.
ignore(res, e) ==
    [ret |-> IF res = Null \/ PyErr_Occurred(e) THEN MinusOne ELSE Zero,
     err |-> e,
     log |-> IF res = Null THEN <<>> ELSE <<"Py_DECREF">>]

\* The adapter of a slot kind.
Adapter(f, res, e) ==
    CASE f = "as_size" -> as_size(res, e)
      [] f = "as_bool" -> as_bool(res, e)
      [] f = "as_hash" -> as_hash(res, e)
      [] f = "as_cmp" -> as_cmp(res, e)
      [] f = "ignore" -> ignore(res, e)

----------------------------------------------------------------------------
(* pyproto.cc: FromHost of a protocol message.  The host object is         *)
(* described by what its attributes and methods do:                        *)
(*   d     "ok" when it has a DESCRIPTOR, "none" when the lookup raises    *)
(*   fn    DESCRIPTOR.full_name: a message name, "int" for a value that is *)
(*         no str, "none" when the lookup raises                           *)
(*   inst  what PyObject_IsInstance(py, Message) gives: "yes", "no" or     *)
(*         "raises"                                                        *)
(*   ser   what SerializePartialToString() gives: "ok" for bytes that      *)
(*         parse, "bad" for bytes that do not, "str" for a value that is   *)
(*         no bytes, "raises"                                              *)
(* env tells what the process gives: imp whether ImportFQName finds the    *)
(* Message class, native whether the generated pool and the prototype's    *)
(* New() are there.  The functions return the pending error and the log of *)
(* the references they took (+) and released (-).                          *)

PyProto(d, fn, inst, ser) ==
    [kind |-> "proto", d |-> d, fn |-> fn, inst |-> inst, ser |-> ser]

\* The message types of the C++ generated pool.
GeneratedPool == {"A", "B"}

\* A native message of a type, holding what was parsed into it.
NMsg(name, content) == [name |-> name, content |-> content]

\* A null PyObject* where the functions below return a name or bytes.
NoObj == "NULL"

\* proto::GetMessageName: DESCRIPTOR.full_name as a new reference.
GetMessageName(o, e) ==
    IF o.d = "none"
    THEN [v |-> NoObj, err |-> "AttributeError", log |-> <<>>]
    ELSE IF o.fn = "none"
         THEN [v |-> NoObj, err |-> "AttributeError", log |-> <<"+pyd", "-pyd">>]
         ELSE IF o.fn = "int"
              THEN [v |-> NoObj, err |-> "TypeError",
                    log |-> <<"+pyd", "+fn", "-pyd", "-fn">>]
              ELSE [v |-> o.fn, err |-> e, log |-> <<"+pyd", "+fn", "-pyd">>]

\* ImportFQName (clif/python/runtime): the class as a new reference, or null
\* with ImportError.
ImportFQName(env, e) ==
    IF env.imp THEN [v |-> "class", err |-> e, log |-> <<"+class">>]
    ELSE [v |-> NoObj, err |-> "ImportError", log |-> <<>>]

\* proto::TypeCheck with an empty element_name: SetNestedName does nothing.
TypeCheck(o, cls, e) ==
    IF cls.v = NoObj THEN [v |-> FALSE, err |-> cls.err, log |-> cls.log]
    ELSE CASE o.inst = "raises" ->
                [v |-> FALSE, err |-> "RuntimeError", log |-> cls.log \o <<"-class">>]
           [] o.inst = "no" ->
                [v |-> FALSE, err |-> "TypeError", log |-> cls.log \o <<"-class">>]
           [] o.inst = "yes" ->
                [v |-> TRUE, err |-> cls.err, log |-> cls.log \o <<"-class">>]

\* proto::Serialize: the bytes as a new reference.
Serialize(o, e) ==
    CASE o.ser = "raises" -> [v |-> NoObj, err |-> "RuntimeError", log |-> <<>>]
      [] o.ser = "str" -> [v |-> NoObj, err |-> "TypeError", log |-> <<"+raw", "-raw">>]
      [] OTHER -> [v |-> o.ser, err |-> e, log |-> <<"+raw">>]

\* Internal_Clif_PyObjAs.  lost tells that the message m was allocated and
\* neither handed to *c nor deleted.
Internal_Clif_PyObjAs(o, c, env, e) ==
    LET fn == GetMessageName(o, e)
        out(ok, c1, e1, log, lost) ==
            [ok |-> ok, c |-> c1, err |-> e1, log |-> log, lost |-> lost]
    IN  IF fn.v = NoObj THEN out(FALSE, c, fn.err, fn.log, FALSE)
        ELSE IF env.native = "no_pool"
        THEN out(FALSE, c, "MemoryError", fn.log \o <<"-fn">>, FALSE)
        ELSE IF fn.v \notin GeneratedPool
        THEN out(FALSE, c, "TypeError", fn.log \o <<"-fn">>, FALSE)
        ELSE IF env.native = "no_message"
        THEN out(FALSE, c, "MemoryError", fn.log \o <<"-fn">>, FALSE)
        ELSE
        LET tc == TypeCheck(o, ImportFQName(env, fn.err), fn.err)
            l1 == fn.log \o <<"-fn">> \o tc.log
        IN  IF ~tc.v THEN out(FALSE, c, tc.err, l1, TRUE)
            ELSE
            LET ser == Serialize(o, tc.err)
                l2 == l1 \o ser.log
            IN  IF ser.v = NoObj THEN out(FALSE, c, ser.err, l2, TRUE)
                ELSE IF ser.v = "bad"
                THEN out(FALSE, c, "ValueError", l2 \o <<"-raw">>, TRUE)
                ELSE out(TRUE, NMsg(fn.v, "parsed"), ser.err, l2 \o <<"-raw">>, FALSE)

\* InGeneratedPool without the PyErr_Restore.
InGeneratedPool_NoRestore(o, cproto, env, e) ==
    IF cproto.name = "none" THEN [ret |-> FALSE, cproto |-> cproto, err |-> e]
    ELSE LET fn == GetMessageName(o, NoErr)
         IN  IF fn.v # NoObj /\ fn.v = cproto.name
             THEN LET r == Internal_Clif_PyObjAs(o, NMsg("none", ""), env, NoErr)
                  IN  IF r.ok THEN [ret |-> TRUE, cproto |-> r.c, err |-> r.err]
                      ELSE [ret |-> FALSE, cproto |-> cproto, err |-> r.err]
             ELSE [ret |-> FALSE, cproto |-> cproto, err |-> fn.err]

\* proto::InGeneratedPool.  PyErr_Fetch takes the pending error and leaves
\* none; PyErr_Restore puts it back in place of whatever is pending then.
\* cproto.name is "none" for a message without descriptor.
InGeneratedPool(o, cproto, env, e) ==
    IF cproto.name = "none" THEN [ret |-> FALSE, cproto |-> cproto, err |-> e]
    ELSE LET saved == e
             fn == GetMessageName(o, NoErr)
         IN  IF fn.v # NoObj /\ fn.v = cproto.name
             THEN LET r == Internal_Clif_PyObjAs(o, NMsg("none", ""), env,
                                                 PyErr_Clear(fn.err))
                  IN  IF r.ok THEN [ret |-> TRUE, cproto |-> r.c, err |-> r.err]
                      ELSE [ret |-> FALSE, cproto |-> cproto, err |-> saved]
             ELSE [ret |-> FALSE, cproto |-> cproto, err |-> saved]

----------------------------------------------------------------------------
(* ToHost.  The objects a ToHost call creates live in a small heap:        *)
(*   rc[x]    the reference count of object x                              *)
(*   kids[x]  the objects x holds a reference to, by slot (0: a NULL slot) *)
(*   sh[x]    the shape of x, without its items                            *)
(*   dbl      a reference was released that nobody held                    *)
(*   fuel     how many more aggregate allocations succeed (-1: all)        *)
(*   err      the pending error                                            *)
(* Object 1 is Py_None, alive before the call.  NULL is 0.                 *)

H0(e, fuel) ==
    [err |-> e, fuel |-> fuel, rc |-> <<1>>, kids |-> << <<>> >>,
     sh |-> <<PyNone>>, dbl |-> FALSE]

\* A new object with one reference, owned by the caller.
New(st, shape, n) ==
    [v |-> Len(st.rc) + 1,
     st |-> [st EXCEPT !.rc = Append(@, 1),
                       !.kids = Append(@, [j \in 1..n |-> 0]),
                       !.sh = Append(@, shape)]]

\* PyList_New, PyTuple_New, PyDict_New, PySet_New, PyCapsule_New,
\* PyBytes_FromStringAndSize: NULL with MemoryError when memory is out.
Alloc(st, shape, n) ==
    IF st.fuel = 0 THEN [v |-> 0, st |-> [st EXCEPT !.err = "MemoryError"]]
    ELSE New([st EXCEPT !.fuel = IF @ > 0 THEN @ - 1 ELSE @], shape, n)

Py_INCREF(st, x) == [st EXCEPT !.rc[x] = @ + 1]

RECURSIVE Py_DECREF(_, _)
RECURSIVE ReleaseKids(_, _, _)
\* Py_DECREF: the last reference deallocates the object, which releases the
\* references it holds.
Py_DECREF(st, x) ==
    IF st.rc[x] = 0 THEN [st EXCEPT !.dbl = TRUE]
    ELSE IF st.rc[x] > 1 THEN [st EXCEPT !.rc[x] = @ - 1]
    ELSE ReleaseKids([st EXCEPT !.rc[x] = 0], st.kids[x], 1)

ReleaseKids(st, ks, j) ==
    IF j > Len(ks) THEN st
    ELSE ReleaseKids(IF ks[j] = 0 THEN st ELSE Py_DECREF(st, ks[j]), ks, j + 1)

Py_XDECREF(st, x) == IF x = 0 THEN st ELSE Py_DECREF(st, x)

\* PyList_SET_ITEM / PyTuple_SET_ITEM: the slot takes over the reference.
SET_ITEM(st, p, i, x) == [st EXCEPT !.kids[p][i + 1] = x]

RECURSIVE Shape(_, _)
\* The host value that object x is, Null for 0.
Shape(st, x) ==
    IF x = 0 THEN Null
    ELSE LET ks == st.kids[x]
         IN  CASE st.sh[x].kind \in {"list", "tuple", "set"} ->
                    [st.sh[x] EXCEPT !.items = [j \in 1..Len(ks) |-> Shape(st, ks[j])]]
               [] st.sh[x].kind = "dict" ->
                    [st.sh[x] EXCEPT !.items = [j \in 1..(Len(ks) \div 2) |->
                        PyTuple(<<Shape(st, ks[2 * j - 1]), Shape(st, ks[2 * j])>>)]]
               [] OTHER -> st.sh[x]

RECURSIVE Hashable(_)
Hashable(o) ==
    /\ o.kind \notin {"list", "dict", "set"}
    /\ \A j \in 1..Len(o.items) : Hashable(o.items[j])

\* PyDict_SetItem: the dict takes references of its own; -1 with TypeError
\* for an unhashable key.
PyDict_SetItem(st, p, k, w) ==
    IF ~Hashable(Shape(st, k)) THEN [v |-> -1, st |-> [st EXCEPT !.err = "TypeError"]]
    ELSE [v |-> 0,
          st |-> [Py_INCREF(Py_INCREF(st, k), w)
                    EXCEPT !.kids[p] = Append(Append(@, k), w)]]

\* PySet_Add, likewise.
PySet_Add(st, p, k) ==
    IF ~Hashable(Shape(st, k)) THEN [v |-> -1, st |-> [st EXCEPT !.err = "TypeError"]]
    ELSE [v |-> 0, st |-> [Py_INCREF(st, k) EXCEPT !.kids[p] = Append(@, k)]]

\* py::PostConv (clif/python/postconv.h): a tree of policies.  Get(i) is the
\* policy of position i, the no-op policy where none was given; Apply runs
\* the policy's function over a freshly made object.
PostConv(f, c) == [f |-> f, c |-> c]

NoopPostConv == PostConv("noop", <<>>)

Get(pc, i) == IF i + 1 <= Len(pc.c) THEN pc.c[i + 1] ELSE NoopPostConv

\* types.cc UnicodeFromBytes: bytes are replaced by a str, the bytes released.
UnicodeFromBytes(st, b) ==
    IF b = 0 \/ PyUnicode_Check(st.sh[b]) THEN [v |-> b, st |-> st]
    ELSE IF ~PyBytes_Check(st.sh[b])
         THEN [v |-> 0, st |-> Py_DECREF([st EXCEPT !.err = "TypeError"], b)]
         ELSE LET u == Alloc(st, PyStr(st.sh[b].z.d), 0)
              IN  [v |-> u.v, st |-> Py_DECREF(u.st, b)]

Apply(pc, st, x) ==
    IF pc.f = "unicode" THEN UnicodeFromBytes(st, x) ELSE [v |-> x, st |-> st]

\* The scalar Clif_PyObjFrom overloads of clif/python/types.h: total, each
\* returns a new reference.
Clif_PyObjFrom_scalar(c, st) ==
    New(st, IF c.t = "bool" THEN HV("bool", c.z, <<>>, FALSE)
            ELSE HV("int", c.z, <<>>, FALSE), 0)

Clif_PyObjFrom_string(c, pc, st) ==
    LET b == Alloc(st, PyBytes(c.z.d), 0)
    IN  Apply(pc, b.st, b.v)

\* FunctionCapsule without the PyErr_SetString.
FunctionCapsule_Silent(c, st) ==
    IF c.s = <<>> THEN [v |-> 0, st |-> st]
    ELSE Alloc(st, HV("capsule", c.s[1].z, <<>>, FALSE), 0)

\* FunctionCapsule.
FunctionCapsule(c, st) ==
    IF c.s = <<>> THEN [v |-> 0, st |-> [st EXCEPT !.err = "ValueError"]]
    ELSE Alloc(st, HV("capsule", c.s[1].z, <<>>, FALSE), 0)

RECURSIVE Clif_PyObjFrom(_, _, _, _)
RECURSIVE ListFill(_, _, _, _, _, _)
RECURSIVE FillFrom(_, _, _, _, _, _)
RECURSIVE DictFill(_, _, _, _, _, _, _)
RECURSIVE SetFill(_, _, _, _, _, _)
RECURSIVE PyObjFromHelper(_, _, _, _, _)

\* The for loop without the Py_DECREF(py) of the failure branch.
ListFill_NoRelease(T, c, pct, st, lst, i) ==
    IF i >= Len(c.s) THEN [v |-> lst, st |-> st]
    ELSE LET x == Clif_PyObjFrom(T, c.s[i + 1], pct, st)
         IN  IF x.v = 0 THEN [v |-> 0, st |-> x.st]
             ELSE ListFill(T, c, pct, SET_ITEM(x.st, lst, i, x.v), lst, i + 1)

\* The for loop of py::ListFromSizableCont and py::ListFromIterators.
ListFill(T, c, pct, st, lst, i) ==
    IF i >= Len(c.s) THEN [v |-> lst, st |-> st]
    ELSE LET x == Clif_PyObjFrom(T, c.s[i + 1], pct, st)
         IN  IF x.v = 0 THEN [v |-> 0, st |-> Py_DECREF(x.st, lst)]
             ELSE ListFill(T, c, pct, SET_ITEM(x.st, lst, i, x.v), lst, i + 1)

ListFromSizableCont(T, c, pc, st) ==
    LET lst == Alloc(st, PyList(<<>>), Len(c.s))
    IN  IF lst.v = 0 THEN lst
        ELSE ListFill(T, c, Get(pc, 0), lst.st, lst.v, 0)

\* py::Tuple<I>::FillFrom, I counting down to 0; the bool it returns is
\* v # 0.
FillFrom(i, Ts, c, pc, st, pytuple) ==
    IF i = 0 THEN [v |-> pytuple, st |-> st]
    ELSE LET x == Clif_PyObjFrom(Ts[i], c.s[i], Get(pc, i - 1), st)
         IN  IF x.v = 0
             THEN [v |-> 0, st |-> Py_DECREF(Py_XDECREF(x.st, x.v), pytuple)]
             ELSE FillFrom(i - 1, Ts, c, pc, SET_ITEM(x.st, pytuple, i - 1, x.v), pytuple)

Clif_PyObjFrom_tuple(Ts, c, pc, st) ==
    LET t == Alloc(st, PyTuple(<<>>), Len(Ts))
    IN  IF t.v = 0 THEN t
        ELSE FillFrom(Len(Ts), Ts, c, pc, t.st, t.v)

Clif_PyObjFrom_pair(T, U, c, pc, st) ==
    LET t == Alloc(st, PyTuple(<<>>), 2)
    IN  IF t.v = 0 THEN t
        ELSE LET a == Clif_PyObjFrom(T, c.s[1], Get(pc, 0), t.st)
             IN  IF a.v = 0 THEN [v |-> 0, st |-> Py_DECREF(a.st, t.v)]
                 ELSE LET b == Clif_PyObjFrom(U, c.s[2], Get(pc, 1),
                                              SET_ITEM(a.st, t.v, 0, a.v))
                      IN  IF b.v = 0 THEN [v |-> 0, st |-> Py_DECREF(b.st, t.v)]
                          ELSE [v |-> t.v, st |-> SET_ITEM(b.st, t.v, 1, b.v)]

\* The for loop of py::DictFromCont.
DictFill(T, U, c, pc, st, d, i) ==
    IF i >= Len(c.s) THEN [v |-> d, st |-> st]
    ELSE LET k == Clif_PyObjFrom(T, c.s[i + 1].s[1], Get(pc, 0), st)
             w == IF k.v = 0 THEN [v |-> 0, st |-> k.st]
                  ELSE Clif_PyObjFrom(U, c.s[i + 1].s[2], Get(pc, 1), k.st)
             put == IF k.v = 0 \/ w.v = 0 THEN [v |-> -1, st |-> w.st]
                    ELSE PyDict_SetItem(w.st, d, k.v, w.v)
         IN  IF put.v < 0
             THEN [v |-> 0,
                   st |-> Py_XDECREF(Py_XDECREF(Py_DECREF(put.st, d), k.v), w.v)]
             ELSE DictFill(T, U, c, pc, Py_DECREF(Py_DECREF(put.st, k.v), w.v), d, i + 1)

DictFromCont(T, U, c, pc, st) ==
    LET d == Alloc(st, PyDict(<<>>), 0)
    IN  IF d.v = 0 THEN d
        ELSE DictFill(T, U, c, pc, d.st, d.v, 0)

\* The for loop of py::SetFromCont.
SetFill(T, c, pct, st, d, i) ==
    IF i >= Len(c.s) THEN [v |-> d, st |-> st]
    ELSE LET j == Clif_PyObjFrom(T, c.s[i + 1], pct, st)
             put == IF j.v = 0 THEN [v |-> -1, st |-> j.st]
                    ELSE PySet_Add(j.st, d, j.v)
         IN  IF put.v < 0
             THEN [v |-> 0, st |-> Py_XDECREF(Py_DECREF(put.st, d), j.v)]
             ELSE SetFill(T, c, pct, Py_DECREF(put.st, j.v), d, i + 1)

SetFromCont(T, c, pc, st) ==
    LET d == Alloc(st, HV("set", Zero, <<>>, FALSE), 0)
    IN  IF d.v = 0 THEN d
        ELSE SetFill(T, c, Get(pc, 0), d.st, d.v, 0)

\* Py_None returned without Py_INCREF.
Clif_PyObjFrom_optional_Borrowed(T, c, pc, st) ==
    IF c.s = <<>> THEN [v |-> 1, st |-> st]
    ELSE Clif_PyObjFrom(T, c.s[1], Get(pc, 0), st)

\* Py_RETURN_NONE for the empty optional.
Clif_PyObjFrom_optional(T, c, pc, st) ==
    IF c.s = <<>> THEN [v |-> 1, st |-> Py_INCREF(st, 1)]
    ELSE Clif_PyObjFrom(T, c.s[1], Get(pc, 0), st)

\* A helper that hands every alternative the policy of the first.
PyObjFromHelper_FirstPolicy(i, U, c, pc, st) ==
    IF c.z.d \notin 0..(Len(U) - 1)
    THEN [v |-> 0, st |-> [st EXCEPT !.err = "ValueError"]]
    ELSE Clif_PyObjFrom(U[c.z.d + 1], c.s[1], Get(pc, 0), st)

\* clif_std_py_variant::PyObjFromHelper<I>, both overloads.
PyObjFromHelper(i, U, c, pc, st) ==
    IF i = Len(U) THEN [v |-> 0, st |-> [st EXCEPT !.err = "ValueError"]]
    ELSE IF c.z.d = i THEN Clif_PyObjFrom(U[i + 1], c.s[1], Get(pc, i), st)
         ELSE PyObjFromHelper(i + 1, U, c, pc, st)

Clif_PyObjFrom_variant(U, c, pc, st) == PyObjFromHelper(0, U, c, pc, st)

\* Overload resolution of Clif_PyObjFrom on the native type.
Clif_PyObjFrom(T, c, pc, st) ==
    CASE T[1] \in IntTypes \cup {"bool"} -> Clif_PyObjFrom_scalar(c, st)
      [] T[1] = "string" -> Clif_PyObjFrom_string(c, pc, st)
      [] T[1] = "optional" -> Clif_PyObjFrom_optional(T[2], c, pc, st)
      [] T[1] = "pair" -> Clif_PyObjFrom_pair(T[2], T[3], c, pc, st)
      [] T[1] = "tuple" -> Clif_PyObjFrom_tuple(T[2], c, pc, st)
      [] T[1] \in {"vector", "array"} -> ListFromSizableCont(T[2], c, pc, st)
      [] T[1] = "set" -> SetFromCont(T[2], c, pc, st)
      [] T[1] = "map" -> DictFromCont(T[2], T[3], c, pc, st)
      [] T[1] = "function" -> FunctionCapsule(c, st)
      [] T[1] = "variant" -> Clif_PyObjFrom_variant(T[2], c, pc, st)

----------------------------------------------------------------------------
(* Bounds of the model and the inputs drawn within them.                   *)

\* Longest host sequence and longest native container.
MaxLen == 3

\* Most alternatives of a std::variant.
MaxAlts == 3

\* Sequences over S of length at most n.
RECURSIVE SeqsUpTo(_, _)
SeqsUpTo(S, n) ==
    IF n = 0 THEN {<<>>}
    ELSE LET shorter == SeqsUpTo(S, n - 1)
         IN  shorter \cup {Append(q, x) : q \in shorter, x \in S}

\* Sequences over S without repetition, of length 1..n.
DistinctSeqs(S, n) ==
    {q \in SeqsUpTo(S, n) : q # <<>> /\ \A i, j \in 1..Len(q) : i # j => q[i] # q[j]}

\* Scalars and other leaves of the host side.
HostInts ==
    {PyInt(0, -5), PyInt(0, 1), PyInt(0, 200), PyInt(0, 300), PyInt(0, 70000),
     PyInt(1, 0), PyInt(2, 0), PyInt(3, 0), PyInt(4, 0), PyInt(-1, -1), PyInt(-3, -1)}

HostLeaves ==
    HostInts \cup {PyNone, PyTrue, PyFalse, PyStr(2), PyBytes(1), PyFloat, PyObj,
                   PyCallable(2)}

\* What a host sequence may hold.
HostElems == {PyInt(0, 1), PyInt(0, 300), PyStr(1)}

HostSeqs ==
    UNION {{PyList(q), PyTuple(q), PyGen(q, TRUE), PySeq(q, Len(q) = 2)}
           : q \in SeqsUpTo(HostElems, MaxLen)}

HostVals == HostLeaves \cup HostSeqs

----------------------------------------------------------------------------
(* The variant search as a state machine: Clif_PyObjAs(py, &v) for a       *)
(* std::variant<U...>, one step per PyObjAsVariantAt<I>, per PyErr_Clear   *)
(* and for the overload that ends the recursion.                           *)

AltTypes ==
    {<<"bool">>, <<"uchar">>, <<"int">>, <<"vector", <<"int">>>>, <<"UserOpt">>,
     <<"UserPtr">>}

AltLists == DistinctSeqs(AltTypes, MaxAlts)

\* The host values handed to the search.
VariantVals ==
    {PyNone, PyTrue, PyInt(0, -5), PyInt(0, 200), PyInt(0, 300), PyInt(3, 0),
     PyStr(2), PyObj, PyList(<<>>), PyList(<<PyInt(0, 1)>>),
     PyList(<<PyInt(0, 1), PyStr(1)>>), PyGen(<<PyInt(0, 1)>>, TRUE)}

\* What the destination may hold before the call.
InitVariants(U) ==
    {NVar(0, <<ValueInit(U[1])>>), NVar(Len(U) - 1, <<ValueInit(U[Len(U)])>>)}

NoIt == [self_ |-> FALSE, it_ |-> 0, c |-> <<>>, owners |-> 0]

NoIo == [op |-> "none"]

NoCb == [R |-> "none"]

InitVariant ==
    /\ at = "TryAll"
    /\ err = NoErr
    /\ py \in VariantVals
    /\ alts \in AltLists
    /\ I = 0
    /\ v \in InitVariants(alts)
    /\ ret = FALSE
    /\ hist = <<>>
    /\ it = NoIt
    /\ io = NoIo
    /\ cb = NoCb

\* The attempt on alternative I without `if (success) return true`.
AttemptAlt_NoCommit ==
    /\ at = "TryAll"
    /\ I < Len(alts)
    /\ LET success == PyObjAsVariantAt(I, alts, py, v, err)
       IN  /\ hist' = Append(hist, [ev |-> "attempt", i |-> I, e |-> err,
                                    ok |-> success.ok, x |-> success.err])
           /\ v' = success.c
           /\ err' = success.err
           /\ at' = "failed"
    /\ UNCHANGED <<py, alts, I, ret, it, io, cb>>

\* PyObjAsVariantTryAll<I>, I < sizeof...(U): the attempt on alternative I.
AttemptAlt ==
    /\ at = "TryAll"
    /\ I < Len(alts)
    /\ LET success == PyObjAsVariantAt(I, alts, py, v, err)
       IN  /\ hist' = Append(hist, [ev |-> "attempt", i |-> I, e |-> err,
                                    ok |-> success.ok, x |-> success.err])
           /\ v' = success.c
           /\ err' = success.err
           /\ IF success.ok
              THEN at' = "done" /\ ret' = TRUE
              ELSE at' = "failed" /\ ret' = ret
    /\ UNCHANGED <<py, alts, I, it, io, cb>>

\* The failed attempt is no real failure: PyErr_Clear(), then
\* PyObjAsVariantTryAll<I + 1>.
ClearFailed ==
    /\ at = "failed"
    /\ err' = PyErr_Clear(err)
    /\ I' = I + 1
    /\ at' = "TryAll"
    /\ UNCHANGED <<py, alts, v, ret, hist, it, io, cb>>

\* The terminating overload enabled one alternative early.
RaiseTerminal_Early ==
    /\ at = "TryAll"
    /\ I >= Len(alts) - 1
    /\ hist' = Append(hist, [ev |-> "raise", i |-> I, e |-> err, ok |-> FALSE,
                             x |-> "TypeError"])
    /\ err' = "TypeError"
    /\ ret' = FALSE
    /\ at' = "done"
    /\ UNCHANGED <<py, alts, I, v, it, io, cb>>

\* PyObjAsVariantTryAll<I>, I == sizeof...(U): every alternative failed.
RaiseTerminal ==
    /\ at = "TryAll"
    /\ I = Len(alts)
    /\ hist' = Append(hist, [ev |-> "raise", i |-> I, e |-> err, ok |-> FALSE,
                             x |-> "TypeError"])
    /\ err' = "TypeError"
    /\ ret' = FALSE
    /\ at' = "done"
    /\ UNCHANGED <<py, alts, I, v, it, io, cb>>

NextVariant == AttemptAlt \/ ClearFailed \/ RaiseTerminal

SpecVariant == InitVariant /\ [][NextVariant]_vars

\* The alternatives py converts to, each tried alone with no error pending.
ConvertibleTo == {i \in 0..(Len(alts) - 1) : PyObjAsVariantAt(i, alts, py, v, NoErr).ok}

Min(S) == CHOOSE m \in S : \A n \in S : m <= n

\* The indices of the attempts made so far, in the order made.
Attempted == [j \in 1..Len(hist) |-> hist[j].i]

\* C1: the alternatives are attempted strictly in declared order, and for a
\* host value convertible to the alternatives S (S not empty) the search
\* returns true with the first of them, min(S), active, after attempting
\* exactly 0..min(S), and with no error pending.
C1_FirstMatchWins ==
    /\ \A j \in 1..Len(hist) : hist[j].ev = "attempt" => hist[j].i = j - 1
    /\ ConvertibleTo # {} =>
         /\ \A j \in 1..Len(hist) : hist[j].ev = "attempt" /\ hist[j].i <= Min(ConvertibleTo)
         /\ at = "done" =>
              /\ ret = TRUE
              /\ v.z.d = Min(ConvertibleTo)
              /\ Attempted = [j \in 1..(Min(ConvertibleTo) + 1) |-> j - 1]
              /\ err = NoErr

\* A search that converted to the second of three alternatives although the
\* third would convert too.
C1_Witness ==
    /\ at = "done" /\ ret = TRUE
    /\ Len(alts) = 3
    /\ ConvertibleTo = {1, 2}
    /\ v.z.d = 1

\* C2: no attempt, and not the terminating step either, starts with an error
\* pending: the error of a failed attempt on alternative i is cleared before
\* the attempt on i + 1; and a successful search returns with none pending.
C2_NoErrorLeaks ==
    /\ \A j \in 1..Len(hist) : hist[j].e = NoErr
    /\ at = "TryAll" => err = NoErr
    /\ at = "done" /\ ret = TRUE => err = NoErr

\* The attempt on alternative 1 about to start after the attempt on
\* alternative 0 failed and left an error.
C2_Witness ==
    /\ at = "TryAll" /\ I = 1
    /\ hist[1].ok = FALSE /\ hist[1].x # NoErr
    /\ err = NoErr

\* C3: the terminal TypeError is raised only after every alternative was
\* attempted and failed, never while one is untried; the search then returns
\* false with that TypeError pending, and a search that returns true never
\* raised it.
C3_TerminalErrorLast ==
    /\ \A j \in 1..Len(hist) :
         hist[j].ev = "raise" =>
            /\ j = Len(alts) + 1
            /\ \A k \in 1..(j - 1) :
                 hist[k].ev = "attempt" /\ hist[k].i = k - 1 /\ ~hist[k].ok
    /\ at = "done" /\ ret = FALSE =>
         /\ err = "TypeError"
         /\ hist[Len(hist)].ev = "raise"
         /\ Len(hist) = Len(alts) + 1
    /\ at = "done" /\ ret = TRUE => \A j \in 1..Len(hist) : hist[j].ev # "raise"

\* A search over three alternatives that failed on each and raised.
C3_Witness ==
    /\ at = "done" /\ ret = FALSE
    /\ Len(alts) = 3
    /\ Attempted = <<0, 1, 2, 3>>
    /\ err = "TypeError"

----------------------------------------------------------------------------
(* Single conversions: one FromHost or ToHost call on inputs drawn from    *)
(* the sets below, with no error pending at the call.                      *)

TInt == <<"int">>

TFn2 == <<"function", 2>>

\* The destination types FromHost is called for.
AsTypes ==
    {<<t>> : t \in IntTypes \cup WideTypes \cup {"bool", "string"}}
    \cup {<<"optional", TInt>>, <<"optional", <<"vector", TInt>>>>,
          <<"unique_ptr", TInt>>, <<"unique_ptr", <<"vector", TInt>>>>,
          <<"pair", TInt, TInt>>, <<"pair", TInt, <<"string">>>>,
          <<"tuple", <<TInt, <<"string">>>>>>, <<"tuple", <<TInt, TInt, TInt>>>>,
          <<"vector", TInt>>, <<"vector", <<"uchar">>>>, <<"vector", <<"string">>>>,
          <<"set", TInt>>, <<"map", TInt, TInt>>, <<"map", <<"string">>, TInt>>,
          <<"array", TInt, 2>>, <<"array", TInt, 3>>,
          TFn2, <<"function", 3>>, <<"optional", TFn2>>, <<"vector", TFn2>>,
          <<"variant", <<TInt, <<"vector", TInt>>>>>>,
          <<"variant", <<<<"vector", TInt>>, <<"bool">>>>>>,
          <<"variant", <<<<"UserOpt">>, <<"uchar">>>>>>}

\* Mappings of the host side.
HostPairs ==
    {PyTuple(<<PyInt(0, 1), PyInt(0, 1)>>), PyTuple(<<PyInt(0, 300), PyStr(1)>>),
     PyTuple(<<PyStr(1), PyInt(0, 1)>>), PyTuple(<<PyInt(0, 1), PyInt(0, 200)>>)}

HostDicts ==
    {PyDict(q) : q \in {r \in SeqsUpTo(HostPairs, 2) :
        \A i, j \in 1..Len(r) : i # j => r[i].items[1] # r[j].items[1]}}

\* The integers at the ends of the ranges of the narrow types.
BoundaryInts ==
    {PyInt(0, -129), PyInt(0, -128), PyInt(0, -1), PyInt(0, 0), PyInt(0, 127),
     PyInt(0, 128), PyInt(0, 255), PyInt(0, 256), PyInt(0, -32769),
     PyInt(0, -32768), PyInt(0, 32767), PyInt(0, 32768), PyInt(0, 65535),
     PyInt(0, 65536), PyInt(-1, 0), PyInt(1, -1), PyInt(2, -1)}

AsVals ==
    HostVals \cup BoundaryInts \cup HostDicts
        \cup {PyList(q) : q \in SeqsUpTo(HostPairs, 2)}

RECURSIVE Sample(_)
\* A value of type T other than T().
Sample(T) ==
    CASE T[1] \in IntTypes \cup WideTypes -> NInt(Z(0, 7))
      [] T[1] = "bool" -> NBool(TRUE)
      [] T[1] = "string" -> NStr(Z(0, 1))
      [] T[1] = "optional" -> NOpt(<<Sample(T[2])>>)
      [] T[1] = "unique_ptr" -> NPtr(<<Sample(T[2])>>)
      [] T[1] = "pair" -> NSeq(<<Sample(T[2]), Sample(T[3])>>)
      [] T[1] = "tuple" -> NSeq([j \in 1..Len(T[2]) |-> Sample(T[2][j])])
      [] T[1] = "array" -> NSeq([j \in 1..T[3] |-> Sample(T[2])])
      [] T[1] = "map" -> NSeq(<<NSeq(<<Sample(T[2]), Sample(T[3])>>)>>)
      [] T[1] = "function" -> NFn(<<NV("callable", Z(0, T[2]), <<>>)>>)
      [] T[1] = "variant" -> NVar(Len(T[2]) - 1, <<Sample(T[2][Len(T[2])])>>)
      [] T[1] \in {"UserOpt", "UserPtr"} -> NUser
      [] OTHER -> NSeq(<<Sample(T[2])>>)

\* What the destination of a FromHost call may hold before it.
Dests(T) == {ValueInit(T), Sample(T)}

\* The native types ToHost is called for.
TVarInt == <<"variant", <<TInt>>>>

FromTypes ==
    {TInt, <<"bool">>, <<"string">>, TFn2,
     <<"optional", TInt>>, <<"optional", TFn2>>,
     <<"pair", TInt, TFn2>>, <<"pair", TFn2, TInt>>,
     <<"tuple", <<TInt, TFn2, TInt>>>>, <<"tuple", <<TFn2, TFn2>>>>,
     <<"vector", TInt>>, <<"vector", TFn2>>, <<"vector", <<"string">>>>,
     <<"vector", <<"optional", TFn2>>>>, <<"array", TFn2, 2>>,
     <<"set", TInt>>, <<"set", TVarInt>>, <<"set", <<"pair", TInt, TFn2>>>>,
     <<"map", TInt, TFn2>>, <<"map", TVarInt, TInt>>,
     <<"map", <<"vector", <<"bool">>>>, TInt>>,
     <<"variant", <<TInt, TFn2>>>>, <<"variant", <<<<"vector", TFn2>>, TInt>>>>,
     <<"variant", <<<<"string">>, <<"string">>, TInt>>>>}

RECURSIVE NativeVals(_)
RECURSIVE Products(_, _)
\* The tuples whose j-th component is a value of Ts[j], for j <= n.
Products(Ts, n) ==
    IF n = 0 THEN {<<>>}
    ELSE {Append(q, x) : q \in Products(Ts, n - 1), x \in NativeVals(Ts[n])}

\* The values of type T that ToHost is called with.
NativeVals(T) ==
    CASE T[1] \in IntTypes -> {NInt(Z(0, 1)), NInt(Z(0, 2))}
      [] T[1] = "bool" -> {NBool(TRUE), NBool(FALSE)}
      [] T[1] = "string" -> {NStr(Z(0, 2))}
      [] T[1] = "function" -> {NFn(<<>>), NFn(<<NV("callable", Z(0, T[2]), <<>>)>>)}
      [] T[1] = "optional" -> {NOpt(<<>>)} \cup {NOpt(<<x>>) : x \in NativeVals(T[2])}
      [] T[1] = "pair" -> {NSeq(q) : q \in Products(<<T[2], T[3]>>, 2)}
      [] T[1] = "tuple" -> {NSeq(q) : q \in Products(T[2], Len(T[2]))}
      [] T[1] = "array" -> {NSeq(q) : q \in Products([j \in 1..T[3] |-> T[2]], T[3])}
      [] T[1] = "vector" -> {NSeq(q) : q \in SeqsUpTo(NativeVals(T[2]), MaxLen)}
      [] T[1] = "set" -> {NSeq(q) : q \in DistinctSeqs(NativeVals(T[2]), 2) \cup {<<>>}}
      [] T[1] = "map" ->
           {NSeq(q) : q \in {r \in SeqsUpTo({NSeq(<<k, w>>) : k \in NativeVals(T[2]),
                                                              w \in NativeVals(T[3])}, 2) :
                               \A i, j \in 1..Len(r) : i # j => r[i].s[1] # r[j].s[1]}}
      [] T[1] = "variant" ->
           {NVar(-1, <<>>)} \cup
           UNION {{NVar(i, <<x>>) : x \in NativeVals(T[2][i + 1])}
                  : i \in 0..(Len(T[2]) - 1)}

\* The policies handed to ToHost.
PostConvs == {NoopPostConv, PostConv("unicode", <<PostConv("unicode", <<>>)>>)}

\* How many aggregate allocations succeed before memory is out (-1: all).
Fuels == {-1, 0, 1, 2}

InitConv ==
    /\ at = "idle"
    /\ err = NoErr
    /\ py = PyNone
    /\ alts = <<>>
    /\ I = 0
    /\ v = NVar(0, <<>>)
    /\ ret = FALSE
    /\ hist = <<>>
    /\ it = NoIt
    /\ io = NoIo
    /\ cb = NoCb

\* bool ok = Clif_PyObjAs(py, &c) for a destination of type T.
CallAs ==
    /\ at = "idle"
    /\ \E T \in AsTypes, o \in AsVals :
         \E c0 \in Dests(T) :
            io' = [op |-> "As", T |-> T, o |-> o, c0 |-> c0,
                   res |-> Clif_PyObjAs(T, o, c0, NoErr)]
    /\ at' = "returned"
    /\ UNCHANGED <<err, py, alts, I, v, ret, hist, it, cb>>

\* PyObject* v = Clif_PyObjFrom(c, pc) for a native value of type T.
CallFrom ==
    /\ at = "idle"
    /\ \E T \in FromTypes, p \in PostConvs, fuel \in Fuels :
         \E c \in NativeVals(T) :
            io' = [op |-> "From", T |-> T, c |-> c, pc |-> p, fuel |-> fuel,
                   res |-> Clif_PyObjFrom(T, c, p, H0(NoErr, fuel))]
    /\ at' = "returned"
    /\ UNCHANGED <<err, py, alts, I, v, ret, hist, it, cb>>

\* The results handed to the adapters: what the wrapped method returned.
SlotVals ==
    HostInts \cup {PyInt(0, 0), PyInt(0, -1), PyInt(0, -2), PyInt(2, -2), PyInt(-3, 0), PyInt(-4, -1),
                   PyTrue, PyFalse, PyNone, PyStr(2), PyFloat, PyList(<<>>)}

\* The adapters that are handed a result that is never null.
Slots == {"as_size", "as_bool", "as_hash", "as_cmp"}

\* return slot::f(res): an object with no error pending; for ignore also
\* the null result of a call that raised.
CallSlot ==
    /\ at = "idle"
    /\ \/ \E f \in Slots \cup {"ignore"}, o \in SlotVals :
            io' = [op |-> "slot", f |-> f, arg |-> o, e0 |-> NoErr,
                   out |-> Adapter(f, o, NoErr)]
       \/ \E e \in {"RuntimeError", "TypeError"} :
            io' = [op |-> "slot", f |-> "ignore", arg |-> Null, e0 |-> e,
                   out |-> Adapter("ignore", Null, e)]
    /\ at' = "returned"
    /\ UNCHANGED <<err, py, alts, I, v, ret, hist, it, cb>>

\* The types whose values are taken to the host and back.
TBool == <<"bool">>

RoundTypes ==
    {<<t>> : t \in IntTypes \cup {"bool"}}
    \cup {<<"optional", TInt>>, <<"optional", TBool>>,
          <<"optional", <<"vector", TInt>>>>,
          <<"pair", TInt, TBool>>, <<"pair", <<"uchar">>, <<"optional", TInt>>>>,
          <<"pair", <<"vector", TBool>>, <<"long">>>>,
          <<"vector", TInt>>, <<"vector", <<"ulong">>>>, <<"vector", TBool>>,
          <<"vector", <<"optional", TInt>>>>, <<"vector", <<"pair", TInt, TBool>>>>}

\* The least and the greatest value of an integer type.
IntMin(t) ==
    CASE t = "schar" -> SCHAR_MIN
      [] t = "short" -> SHRT_MIN
      [] t = "int" -> INT_MIN
      [] t = "long" -> LONG_MIN
      [] OTHER -> Zero

IntMax(t) ==
    CASE t = "schar" -> SCHAR_MAX
      [] t = "short" -> SHRT_MAX
      [] t = "int" -> INT_MAX
      [] t = "long" -> LONG_MAX
      [] t = "uchar" -> UCHAR_MAX
      [] t = "ushort" -> USHRT_MAX
      [] t = "uint" -> UINT_MAX
      [] t = "ulong" -> ULONG_MAX

RECURSIVE RoundVals(_)
\* The values of type T taken to the host and back: the ends of the range
\* of each integer type and a value between.
RoundVals(T) ==
    CASE T[1] \in IntTypes -> {NInt(IntMin(T[1])), NInt(Z(0, 1)), NInt(IntMax(T[1]))}
      [] T[1] = "bool" -> {NBool(TRUE), NBool(FALSE)}
      [] T[1] = "optional" -> {NOpt(<<>>)} \cup {NOpt(<<x>>) : x \in RoundVals(T[2])}
      [] T[1] = "pair" ->
           {NSeq(<<x, y>>) : x \in RoundVals(T[2]), y \in RoundVals(T[3])}
      [] T[1] = "vector" -> {NSeq(q) : q \in SeqsUpTo(RoundVals(T[2]), MaxLen)}

\* PyObject* py = Clif_PyObjFrom(c, {}); bool ok = Clif_PyObjAs(py, &d) for
\* a destination d of the type of c.
CallRoundTrip ==
    /\ at = "idle"
    /\ \E T \in RoundTypes :
         \E c \in RoundVals(T), c0 \in Dests(T) :
            LET h == Clif_PyObjFrom(T, c, NoopPostConv, H0(NoErr, -1))
                o == Shape(h.st, h.v)
            IN  io' = [op |-> "RoundTrip", T |-> T, c |-> c, c0 |-> c0, o |-> o,
                       res |-> Clif_PyObjAs(T, o, c0, h.st.err)]
    /\ at' = "returned"
    /\ UNCHANGED <<err, py, alts, I, v, ret, hist, it, cb>>

\* The host objects offered as protocol messages, the native messages
\* offered as destination, and what the process provides.
ProtoVals ==
    {PyProto(d, fn, inst, ser) :
        d \in {"ok", "none"}, fn \in {"A", "B", "X", "int", "none"},
        inst \in {"yes", "no", "raises"}, ser \in {"ok", "bad", "str", "raises"}}

ProtoDests == {NMsg(n, "") : n \in {"A", "B", "none"}}

ProtoEnvs ==
    {[imp |-> i, native |-> n] : i \in BOOLEAN, n \in {"ok", "no_pool", "no_message"}}

\* The errors that may be pending when InGeneratedPool is entered.
EntryErrs == {NoErr, "KeyError", "TypeError"}

\* bool ok = Clif_PyObjAs(py, &c) for a std::unique_ptr<proto2::Message> c.
CallProtoAs ==
    /\ at = "idle"
    /\ \E o \in ProtoVals, env \in ProtoEnvs :
         io' = [op |-> "ProtoAs", o |-> o, env |-> env,
                res |-> Internal_Clif_PyObjAs(o, NMsg("none", ""), env, NoErr)]
    /\ at' = "returned"
    /\ UNCHANGED <<err, py, alts, I, v, ret, hist, it, cb>>

\* bool in = proto::InGeneratedPool(pyproto, cproto).
CallInGeneratedPool ==
    /\ at = "idle"
    /\ \E o \in ProtoVals, c \in ProtoDests, env \in ProtoEnvs, e \in EntryErrs :
         io' = [op |-> "InGeneratedPool", o |-> o, c0 |-> c, env |-> env, e0 |-> e,
                out |-> InGeneratedPool(o, c, env, e)]
    /\ at' = "returned"
    /\ UNCHANGED <<err, py, alts, I, v, ret, hist, it, cb>>

NextConv ==
    CallAs \/ CallFrom \/ CallSlot \/ CallRoundTrip \/ CallProtoAs
        \/ CallInGeneratedPool

SpecConv == InitConv /\ [][NextConv]_vars

\* C4 as claimed: a failed FromHost into an ownership wrapper leaves it
\* empty, whatever it held before: the optional disengaged, the unique_ptr
\* null, the variant without a payload that a failed attempt constructed
\* (it holds what it held before the call).
C4_FailedLeavesEmpty ==
    io.op = "As" /\ ~io.res.ok =>
        CASE io.T[1] = "optional" -> io.res.c = NOpt(<<>>)
          [] io.T[1] = "unique_ptr" -> io.res.c = NPtr(<<>>)
          [] io.T[1] = "variant" -> io.res.c = io.c0
          [] OTHER -> TRUE

\* FromHost of the host list [1, "x"] into std::variant<int, std::vector<int>>
\* that held an int: false, and the variant holds the vector [1] that the
\* failed attempt on the second alternative left behind.
C4_Witness ==
    /\ io.op = "As"
    /\ io.T = <<"variant", <<TInt, <<"vector", TInt>>>>>>
    /\ io.o = PyList(<<PyInt(0, 1), PyStr(1)>>)
    /\ io.c0 = NVar(0, <<NInt(Zero)>>)
    /\ ~io.res.ok
    /\ io.res.err = "TypeError"
    /\ io.res.c = NVar(1, <<NSeq(<<NInt(Z(0, 1))>>)>>)

\* C8: a conversion called with no error pending returns false (FromHost) or
\* null (ToHost) if and only if an error is pending when it returns.
C8_FailureIffError ==
    /\ io.op = "As" => (~io.res.ok <=> PyErr_Occurred(io.res.err))
    /\ io.op = "From" => (io.res.v = 0 <=> PyErr_Occurred(io.res.st.err))

\* FromHost into std::array<int, 2> of a host list of three ints: false,
\* with the ValueError of the length pending.
C8_Witness ==
    /\ io.op = "As"
    /\ io.T = <<"array", TInt, 2>>
    /\ io.o.kind = "list"
    /\ Len(io.o.items) = 3
    /\ ~io.res.ok
    /\ io.res.err = "ValueError"

\* The objects a ToHost call created (all but Py_None).
Created(st) == 2..Len(st.rc)

\* The references to x held by the slots of live objects.
Holders(st, x) ==
    Cardinality({pj \in UNION {{<<p, j>> : j \in 1..Len(st.kids[p])} : p \in 1..Len(st.rc)} :
                    st.rc[pj[1]] > 0 /\ st.kids[pj[1]][pj[2]] = x})

RECURSIVE Filled(_)
\* No slot of the host value, at any depth, is null.
Filled(o) == o # Null /\ \A j \in 1..Len(o.items) : Filled(o.items[j])

Aggregates == {"vector", "array", "tuple", "pair", "map", "set"}

\* C6: ToHost of an aggregate never returns a partially filled object.  When
\* it returns null, every object it created (the aggregate, the elements
\* stored in it, a key or value not yet stored) has been released exactly
\* once: none is left with a reference, none was released twice, and Py_None
\* is back at its count.  When it returns an object, that object has one item
\* for each element of the native container and no null slot.
C6_NoPartialAggregate ==
    (io.op = "From" /\ io.T[1] \in Aggregates) =>
        /\ ~io.res.st.dbl
        /\ io.res.v = 0 =>
              /\ \A x \in Created(io.res.st) : io.res.st.rc[x] = 0
              /\ io.res.st.rc[1] = 1
        /\ io.res.v # 0 =>
              /\ Filled(Shape(io.res.st, io.res.v))
              /\ Len(Shape(io.res.st, io.res.v).items) = Len(io.c.s)

\* A vector whose third element fails after two were stored in the list:
\* the list and both capsules were created, and all three are released.
C6_Witness ==
    /\ io.op = "From"
    /\ io.res.v = 0
    /\ io.fuel = -1
    /\ io.T = <<"vector", TFn2>>
    /\ Len(io.c.s) = 3
    /\ io.c.s[1] # NFn(<<>>) /\ io.c.s[2] # NFn(<<>>) /\ io.c.s[3] = NFn(<<>>)
    /\ Len(io.res.st.rc) = 4
    /\ \A x \in 2..4 : io.res.st.rc[x] = 0

\* C7: every adapter releases the result it was handed exactly once, on the
\* success path and on the error path, and makes no call on it after the
\* release (as_hash calls PyObject_Hash before it); ignore, handed a null
\* result, releases nothing.
C7_ReleasedOnce ==
    io.op = "slot" =>
        LET log == io.out.log
            rel == {j \in 1..Len(log) : log[j] = "Py_DECREF"}
        IN  /\ Cardinality(rel) = IF io.arg = Null THEN 0 ELSE 1
            /\ \A j \in rel : j = Len(log)

\* as_hash on an int too large for a long: the overflow is cleared, the hash
\* comes from PyObject_Hash, and then the result is released.
C7_Witness ==
    /\ io.op = "slot"
    /\ io.f = "as_hash"
    /\ io.arg = PyInt(4, 0)
    /\ io.out.log = <<"PyLong_Check", "PyLong_AsLong", "PyObject_Hash", "Py_DECREF">>
    /\ io.out.err = NoErr
    /\ io.out.ret = Z(0, 8)

\* Whether the native value keeps the host value it was converted from: a
\* std::function, alone or as the payload of an optional or variant.
RECURSIVE Keeps(_)
Keeps(c) ==
    \/ c.t = "fn" /\ c.s # <<>>
    \/ c.t \in {"opt", "ptr", "var"} /\ c.s # <<>> /\ Keeps(c.s[1])

\* C9: a FromHost call leaves the reference count of its input as it was,
\* on success and on failure, unless it succeeded in wrapping the input as a
\* std::function, which keeps one reference; a non-null result of ToHost is a
\* new reference of the caller, over those Py_None had and those the slots of
\* the result hold.
C9_RefcountNeutral ==
    /\ io.op = "As" =>
          io.res.din = IF io.res.ok /\ Keeps(io.res.c) THEN 1 ELSE 0
    /\ (io.op = "From" /\ io.res.v # 0) =>
          io.res.st.rc[io.res.v]
             = (IF io.res.v = 1 THEN 1 ELSE 0) + Holders(io.res.st, io.res.v) + 1

\* Py_None returned for an empty optional, its count raised from 1 to 2.
C9_Witness ==
    /\ io.op = "From"
    /\ io.T[1] = "optional"
    /\ io.c = NOpt(<<>>)
    /\ io.res.v = 1
    /\ io.res.st.rc[1] = 2

\* C13: FromHost into std::function<R(T...)> of n arguments, given a value
\* that is not callable or a callable that does not take n arguments,
\* returns false with an error pending, leaves the destination function
\* object as it was and keeps no reference to the value.  The conversion
\* consists of the two checks only, so nothing is invoked.
C13_ArityMismatchRejected ==
    (io.op = "As" /\ io.T[1] = "function"
       /\ (~PyCallable_Check(io.o) \/ io.o.z.d # io.T[2])) =>
        /\ ~io.res.ok
        /\ PyErr_Occurred(io.res.err)
        /\ io.res.c = io.c0
        /\ io.res.din = 0

\* A callable of two arguments offered for a signature of three, the
\* destination holding a function already.
C13_Witness ==
    /\ io.op = "As"
    /\ io.T = <<"function", 3>>
    /\ io.o = PyCallable(2)
    /\ io.c0 = Sample(<<"function", 3>>)
    /\ ~io.res.ok
    /\ io.res.err = "TypeError"
    /\ io.res.c = io.c0

\* The narrow integer types and the values each can hold.
NarrowTypes == {"uchar", "ushort", "uint", "schar", "short", "int"}

Lowest(t) ==
    CASE t = "schar" -> SCHAR_MIN
      [] t = "short" -> SHRT_MIN
      [] t = "int" -> INT_MIN
      [] OTHER -> Zero

Highest(t) ==
    CASE t = "schar" -> SCHAR_MAX
      [] t = "short" -> SHRT_MAX
      [] t = "int" -> INT_MAX
      [] t = "uchar" -> UCHAR_MAX
      [] t = "ushort" -> USHRT_MAX
      [] t = "uint" -> UINT_MAX

Representable(t, z) == ZLeq(Lowest(t), z) /\ ZLeq(z, Highest(t))

RangeErrors == {"ValueError", "OverflowError"}

\* C15: FromHost of a host integer into a narrow integer type succeeds
\* exactly when the integer is representable in the type, and then stores
\* that integer; otherwise it returns false with a range error (ValueError
\* or OverflowError) pending and leaves the destination as it was.
C15_NarrowingRangeChecked ==
    (io.op = "As" /\ io.T[1] \in NarrowTypes /\ PyLong_CheckExact(io.o)) =>
        /\ io.res.ok <=> Representable(io.T[1], io.o.z)
        /\ io.res.ok => io.res.c = NInt(io.o.z) /\ ~PyErr_Occurred(io.res.err)
        /\ ~io.res.ok => io.res.err \in RangeErrors /\ io.res.c = io.c0

\* 300 offered to an unsigned char that holds 7.
C15_Witness ==
    /\ io.op = "As"
    /\ io.T = <<"uchar">>
    /\ io.o = PyInt(0, 300)
    /\ io.c0 = NInt(Z(0, 7))
    /\ ~io.res.ok
    /\ io.res.err = "ValueError"
    /\ io.res.c = NInt(Z(0, 7))

\* The type of the elements IterToCont converts for a container of type T.
ElemType(T) == IF T[1] = "map" THEN <<"pair", T[2], T[3]>> ELSE T[2]

\* What the host iterator of a FromHost call into a container yields.
Yielded(T, o) ==
    CASE T[1] = "map" -> IF o.kind = "dict" THEN o.items ELSE <<>>
      [] Iterable(o) -> IterItems(o)
      [] OTHER -> <<>>

ElemAs(T, el) == Clif_PyObjAs(ElemType(T), el, DefaultInit(ElemType(T)), NoErr)

\* The position of the first element that fails to convert, Len + 1 if none.
FirstFailure(T, o) ==
    LET ys == Yielded(T, o)
        failing == {j \in 1..Len(ys) : ~ElemAs(T, ys[j]).ok}
    IN  IF failing = {} THEN Len(ys) + 1
        ELSE CHOOSE j \in failing : \A i \in failing : j <= i

\* The converted elements before the first failure, in host order.
ConvertedPrefix(T, o) ==
    [j \in 1..(FirstFailure(T, o) - 1) |-> ElemAs(T, Yielded(T, o)[j]).c]

\* The container c of type T holds exactly the elements q inserted in
\* order into an empty container; rest(j) is what a std::array has in a
\* position that q does not reach.
HoldsExactly(T, c, q, rest(_)) ==
    CASE T[1] = "vector" -> c.s = q
      [] T[1] = "set" ->
           /\ {c.s[j] : j \in 1..Len(c.s)} = {q[j] : j \in 1..Len(q)}
           /\ \A i, j \in 1..Len(c.s) : i # j => c.s[i] # c.s[j]
      [] T[1] = "map" ->
           /\ {c.s[j] : j \in 1..Len(c.s)} =
                 {q[j] : j \in {i \in 1..Len(q) :
                     \A l \in (i + 1)..Len(q) : q[l].s[1] # q[i].s[1]}}
           /\ \A i, j \in 1..Len(c.s) : i # j => c.s[i].s[1] # c.s[j].s[1]
      [] T[1] = "array" ->
           c.s = [j \in 1..T[3] |-> IF j <= Len(q) THEN q[j] ELSE rest(j)]

\* The outcome of a FromHost call into a container: a success has fetched
\* and converted every element; a failing element is the last one fetched;
\* and the container holds the elements converted before it.
FilledInOrder(rest(_)) ==
    LET n == FirstFailure(io.T, io.o)
    IN  /\ io.res.ok => n = Len(Yielded(io.T, io.o)) + 1
        /\ n <= Len(Yielded(io.T, io.o)) =>
              ~io.res.ok /\ PyErr_Occurred(io.res.err) /\ io.res.fetched = n
        /\ HoldsExactly(io.T, io.res.c, ConvertedPrefix(io.T, io.o), rest)

Cleared(j) == ValueInit(io.T[2])

Previous(j) == io.c0.s[j]

\* C16 as stated: FromHost into a vector, set, map or array clears the
\* destination and inserts the converted elements in host order, so that
\* after a success it holds exactly the converted elements, after a failure
\* at element k exactly the elements converted before k, with nothing of its
\* previous content and no element fetched after k.
C16_ClearedThenFilled ==
    (io.op = "As" /\ io.T[1] \in {"vector", "set", "map", "array"}) =>
        FilledInOrder(Cleared)

\* C16 for the code: it holds for vector, set and map; a std::array is not
\* cleared, its positions from the first failure on (or from the end of the
\* host iterable on) keep their previous content.
C16_ClearedUnlessArray ==
    (io.op = "As" /\ io.T[1] \in {"vector", "set", "map", "array"}) =>
        IF io.T[1] = "array" THEN FilledInOrder(Previous)
        ELSE FilledInOrder(Cleared)

\* A vector of unsigned char holding 7 is offered [1, 300, 1]: the call
\* fails at the second element and the vector holds 1 alone.
C16_Witness ==
    /\ io.op = "As"
    /\ io.T = <<"vector", <<"uchar">>>>
    /\ io.o = PyList(<<PyInt(0, 1), PyInt(0, 300), PyInt(0, 1)>>)
    /\ io.c0 = NSeq(<<NInt(Z(0, 7))>>)
    /\ ~io.res.ok
    /\ io.res.c = NSeq(<<NInt(Z(0, 1))>>)
    /\ io.res.fetched = 2

\* The host values that have a length, and the number of elements of a
\* fixed-size aggregate type.
Sized(o) == o.kind \in {"list", "tuple", "seq", "str", "bytes", "dict"}

FixedSize(T) == IF T[1] = "tuple" THEN Len(T[2]) ELSE T[3]

\* The actual length the ValueError of a fixed-size conversion names: len
\* in "expected a tuple with len==%zd, got %zd", index in "expected a size
\* of %zd, got %zd".
NamedLength ==
    IF io.T[1] = "tuple" THEN PyTuple_Size(io.o, NoErr).v ELSE io.res.index

\* C17: FromHost into a std::tuple of N elements or a std::array<T, N>
\* succeeds only for a host value of N elements, and for a host value of any
\* other length L returns false with a ValueError that names N and L.
C17_LengthMismatchIsValueError ==
    (io.op = "As" /\ io.T[1] \in {"tuple", "array"} /\ Sized(io.o)) =>
        LET L == Len(ItemsOf(io.o))
        IN  /\ io.res.ok => L = FixedSize(io.T)
            /\ L # FixedSize(io.T) =>
                  /\ ~io.res.ok
                  /\ io.res.err = "ValueError"
                  /\ NamedLength = L

\* A list of one element offered to a tuple of two: the call fails with the
\* SystemError of PyTuple_Size.
C17_Witness ==
    /\ io.op = "As"
    /\ io.T = <<"tuple", <<TInt, <<"string">>>>>>
    /\ io.o = PyList(<<PyInt(0, 1)>>)
    /\ ~io.res.ok
    /\ io.res.err = "SystemError"

\* A list of three elements, the second no int, offered to an array of two:
\* the ValueError names the length 1.
C17_ArrayWitness ==
    /\ io.op = "As"
    /\ io.T = <<"array", TInt, 2>>
    /\ io.o = PyList(<<PyInt(0, 1), PyStr(1), PyInt(0, 1)>>)
    /\ ~io.res.ok
    /\ io.res.err = "ValueError"
    /\ io.res.index = 1

C19_AsBoolTypeError ==
    (io.op = "slot" /\ io.f = "as_bool") =>
        IF PyLong_CheckExact(io.arg) \/ PyBool_Check(io.arg)
        THEN /\ io.out.ret = (IF io.arg.z = Zero THEN Zero ELSE Z(0, 1))
             /\ ~PyErr_Occurred(io.out.err)
        ELSE /\ io.out.ret = MinusOne
             /\ io.out.err = "TypeError"

\* as_bool handed a str: -1 with ValueError pending.
C19_Witness ==
    /\ io.op = "slot"
    /\ io.f = "as_bool"
    /\ io.arg = PyStr(2)
    /\ io.out.ret = MinusOne
    /\ io.out.err = "ValueError"

\* C20: as_cmp returns -2 exactly when the result could not be read as an
\* integer, and then with an error pending; for every int result the code
\* returned is not -2.
C20_SentinelDistinct ==
    (io.op = "slot" /\ io.f = "as_cmp") =>
        /\ io.out.ret = Z(0, -2) <=> ~PyLong_Check(io.arg)
        /\ io.out.ret = Z(0, -2) => PyErr_Occurred(io.out.err)

\* as_cmp handed the int 2^32 - 2: -2 with no error pending.
C20_Witness ==
    /\ io.op = "slot"
    /\ io.f = "as_cmp"
    /\ io.arg = PyInt(2, -2)
    /\ io.out.ret = Z(0, -2)
    /\ ~PyErr_Occurred(io.out.err)

\* C21: ToHost of a std::variant returns what the converter of the active
\* alternative I returns when handed the payload and the policy Get(I), and
\* leaves the heap as that converter alone leaves it; for a valueless
\* variant it returns null with ValueError pending and creates nothing.
C21_ActiveIndexDispatch ==
    (io.op = "From" /\ io.T[1] = "variant") =>
        LET U == io.T[2]
            i == io.c.z.d
            st0 == H0(NoErr, io.fuel)
        IN  IF i \in 0..(Len(U) - 1)
            THEN io.res = Clif_PyObjFrom(U[i + 1], io.c.s[1], Get(io.pc, i), st0)
            ELSE /\ io.res.v = 0
                 /\ io.res.st = [st0 EXCEPT !.err = "ValueError"]

\* A variant<string, string, int> holding its second string, converted with
\* a policy that makes a str of the first alternative only: the result is
\* bytes.
C21_Witness ==
    /\ io.op = "From"
    /\ io.T = <<"variant", <<<<"string">>, <<"string">>, TInt>>>>
    /\ io.c = NVar(1, <<NStr(Z(0, 2))>>)
    /\ io.pc = PostConv("unicode", <<PostConv("unicode", <<>>)>>)
    /\ io.res.v # 0
    /\ Shape(io.res.st, io.res.v) = PyBytes(2)

\* A valueless variant: null with ValueError pending.
C21_ValuelessWitness ==
    /\ io.op = "From"
    /\ io.T = <<"variant", <<TInt, TFn2>>>>
    /\ io.c = NVar(-1, <<>>)
    /\ io.res.v = 0
    /\ io.res.st.err = "ValueError"

RECURSIVE FunctionFree(_)
\* A type without std::function, whose conversions keep no reference.
FunctionFree(T) ==
    CASE T[1] = "function" -> FALSE
      [] T[1] \in {"optional", "unique_ptr", "vector", "set", "array"} ->
           FunctionFree(T[2])
      [] T[1] \in {"pair", "map"} -> FunctionFree(T[2]) /\ FunctionFree(T[3])
      [] T[1] \in {"tuple", "variant"} ->
           \A j \in 1..Len(T[2]) : FunctionFree(T[2][j])
      [] OTHER -> TRUE

\* Every reference a log takes is released once, after it was taken.
Balanced(log) ==
    \A n \in {"pyd", "fn", "class", "raw"} :
        LET took == {j \in 1..Len(log) : log[j] = "+" \o n}
            gave == {j \in 1..Len(log) : log[j] = "-" \o n}
        IN  /\ Cardinality(took) = Cardinality(gave)
            /\ Cardinality(gave) <= 1
            /\ \A i \in took, j \in gave : i < j

\* C22: a FromHost conversion returns holding none of the host values it
\* took for its own use, and has released none twice: the iterator, the
\* fetched elements, the items view, the pair items, the integers of the
\* 128-bit conversions, the message name and the serialized bytes.
C22_NoTemporaryLeaked ==
    /\ (io.op = "As" /\ FunctionFree(io.T)) => io.res.tmp = 0
    /\ io.op = "ProtoAs" => Balanced(io.res.log)

\* The host int 1 converted to an absl::int128: the call succeeds and four
\* temporaries are still referenced.
C22_Witness ==
    /\ io.op = "As"
    /\ io.T = <<"int128">>
    /\ io.o = PyInt(0, 1)
    /\ io.res.ok
    /\ io.res.c = NInt(Z(0, 1))
    /\ io.res.tmp = 4

\* C23: FromHost into a std::array<T, N> from a host iterable that yields
\* exactly N elements succeeds when they all convert, and when one fails
\* returns false with the error of that element's conversion pending, not
\* the ValueError of a length mismatch.
C23_ElementErrorKept ==
    (io.op = "As" /\ io.T[1] = "array" /\ Iterable(io.o) /\ ~IterRaises(io.o)
        /\ Len(IterItems(io.o)) = io.T[3]) =>
        LET n == FirstFailure(io.T, io.o)
        IN  IF n <= io.T[3]
            THEN /\ ~io.res.ok
                 /\ io.res.err = ElemAs(io.T, IterItems(io.o)[n]).err
            ELSE io.res.ok

\* [1, "x"] offered to an array of two ints: the TypeError of "x" is
\* replaced by the ValueError of the length test, which names the length 1.
C23_Witness ==
    /\ io.op = "As"
    /\ io.T = <<"array", TInt, 2>>
    /\ io.o = PyList(<<PyInt(0, 1), PyStr(1)>>)
    /\ ElemAs(io.T, PyStr(1)).err = "TypeError"
    /\ ~io.res.ok
    /\ io.res.err = "ValueError"
    /\ io.res.index = 1

\* C24: FromHost into a std::pair assigns first and second only when both
\* host items have converted; when the length is not 2, or an item cannot
\* be fetched or converted, it returns false and the pair is as it was.
C24_PairAllOrNothing ==
    (io.op = "As" /\ io.T[1] = "pair") =>
        /\ ~io.res.ok => io.res.c = io.c0
        /\ io.res.ok =>
              /\ Len(ItemsOf(io.o)) = 2
              /\ \A j \in 1..2 :
                    LET r == Clif_PyObjAs(io.T[j + 1], ItemsOf(io.o)[j],
                                          DefaultInit(io.T[j + 1]), NoErr)
                    IN  r.ok /\ io.res.c.s[j] = r.c

\* The tuple (1, 1) offered to a pair<int, string> holding (7, "a"): the
\* first item converts, the second does not, and the pair still holds
\* (7, "a").
C24_Witness ==
    /\ io.op = "As"
    /\ io.T = <<"pair", TInt, <<"string">>>>
    /\ io.o = PyTuple(<<PyInt(0, 1), PyInt(0, 1)>>)
    /\ io.c0 = Sample(io.T)
    /\ io.c0.s[1] = NInt(Z(0, 7))
    /\ ~io.res.ok
    /\ io.res.err = "TypeError"
    /\ io.res.c = io.c0

\* C25: when InGeneratedPool returns false, the pending error is what it
\* was at entry, none or that same error, whatever the name lookup and the
\* inner conversion raised meanwhile; when it returns true, no error is
\* pending.
C25_ErrorStatePreserved ==
    io.op = "InGeneratedPool" =>
        /\ ~io.out.ret => io.out.err = io.e0
        /\ io.out.ret => ~PyErr_Occurred(io.out.err)

\* KeyError is pending at entry, the names match and the inner conversion
\* fails in SerializePartialToString: false, with KeyError pending.
C25_Witness ==
    /\ io.op = "InGeneratedPool"
    /\ io.e0 = "KeyError"
    /\ io.o = PyProto("ok", "A", "yes", "raises")
    /\ io.c0 = NMsg("A", "")
    /\ io.env = [imp |-> TRUE, native |-> "ok"]
    /\ ~io.out.ret
    /\ io.out.err = "KeyError"
    /\ io.out.cproto = io.c0

----------------------------------------------------------------------------
(* Iterator<Container, ContainerIter>: the iterator shares the container   *)
(* with the wrapped object through self_; owners counts the other          *)
(* shared_ptr copies.  Next() returns 0 for nullptr and k + 1 for the      *)
(* address of element k.                                                   *)

\* What the containers hold.
IterElems == {1, 2}

\* Most shared_ptr copies outside the iterator.
MaxOwners == 2

\* Most calls of Next() on one iterator.
MaxCalls == MaxLen + 2

\* self_.use_count() as seen by the other owners.
UseCount(i) == i.owners + (IF i.self_ THEN 1 ELSE 0)

\* An iterator made by either constructor: at begin(*self_) or at a start
\* position handed in.
InitIter ==
    /\ at = "iter"
    /\ \E c \in SeqsUpTo(IterElems, MaxLen) :
         \E start \in 0..Len(c), n \in 0..MaxOwners :
            it = [self_ |-> TRUE, it_ |-> start, c |-> c, owners |-> n]
    /\ hist = <<>>
    /\ err = NoErr
    /\ py = PyNone
    /\ alts = <<>>
    /\ I = 0
    /\ v = NVar(0, <<>>)
    /\ ret = FALSE
    /\ io = NoIo
    /\ cb = NoCb

\* Next() without self_.reset().
Iterator_Next_NoReset ==
    /\ at = "iter"
    /\ Len(hist) < MaxCalls
    /\ IF ~it.self_ \/ it.it_ = Len(it.c)
       THEN /\ it' = it
            /\ hist' = Append(hist, [r |-> 0, before |-> UseCount(it),
                                     after |-> UseCount(it)])
       ELSE /\ it' = [it EXCEPT !.it_ = @ + 1]
            /\ hist' = Append(hist, [r |-> it.it_ + 1, before |-> UseCount(it),
                                     after |-> UseCount(it)])
    /\ UNCHANGED <<at, err, py, alts, I, v, ret, io, cb>>

\* const T* Next() noexcept.
Iterator_Next ==
    /\ at = "iter"
    /\ Len(hist) < MaxCalls
    /\ IF ~it.self_
       THEN /\ it' = it
            /\ hist' = Append(hist, [r |-> 0, before |-> UseCount(it),
                                     after |-> UseCount(it)])
       ELSE IF it.it_ # Len(it.c)
       THEN /\ it' = [it EXCEPT !.it_ = @ + 1]
            /\ hist' = Append(hist, [r |-> it.it_ + 1, before |-> UseCount(it),
                                     after |-> UseCount(it)])
       ELSE /\ it' = [it EXCEPT !.self_ = FALSE]
            /\ hist' = Append(hist, [r |-> 0, before |-> UseCount(it),
                                     after |-> UseCount(it')])
    /\ UNCHANGED <<at, err, py, alts, I, v, ret, io, cb>>

\* Another owner lets go of its shared_ptr.
OwnerRelease ==
    /\ at = "iter"
    /\ it.owners > 0
    /\ it' = [it EXCEPT !.owners = @ - 1]
    /\ UNCHANGED <<at, err, py, alts, I, v, ret, hist, io, cb>>

\* An owner copies its shared_ptr.
OwnerCopy ==
    /\ at = "iter"
    /\ it.owners > 0
    /\ it.owners < MaxOwners
    /\ it' = [it EXCEPT !.owners = @ + 1]
    /\ UNCHANGED <<at, err, py, alts, I, v, ret, hist, io, cb>>

NextIter == Iterator_Next \/ OwnerRelease \/ OwnerCopy

SpecIter == InitIter /\ [][NextIter]_vars

\* The calls of Next() that returned nullptr.
Exhausted == {j \in 1..Len(hist) : hist[j].r = 0}

\* C5: once Next() has returned nullptr every later call returns nullptr;
\* the call that first returns nullptr lowers the container's use count by
\* exactly one and no other call changes it; until then the iterator holds a
\* reference, so the use count is at least one whatever the other owners do.
C5_ExhaustionTerminal ==
    at = "iter" =>
        /\ \A j \in Exhausted : \A k \in j..Len(hist) : k \in Exhausted
        /\ \A j \in 1..Len(hist) :
              hist[j].after = hist[j].before
                                - (IF j \in Exhausted /\ j = Min(Exhausted) THEN 1 ELSE 0)
        /\ \A j \in 1..Len(hist) : j \notin Exhausted => hist[j].before >= 1
        /\ Exhausted = {} => it.self_ /\ UseCount(it) >= 1
        /\ Exhausted # {} => ~it.self_

\* A container of two elements walked to its end with no other owner left:
\* two elements, then nullptr with the use count going from 1 to 0, then
\* nullptr again.
C5_Witness ==
    /\ at = "iter"
    /\ Len(it.c) = 2
    /\ it.owners = 0
    /\ Len(hist) = 4
    /\ hist[1].r = 1 /\ hist[2].r = 2 /\ hist[3].r = 0 /\ hist[4].r = 0
    /\ hist[3].before = 1 /\ hist[3].after = 0

----------------------------------------------------------------------------
(* callback::Func<R, T...>::operator(), one step per statement.  cb holds  *)
(*   R, args, pc   the return type, the native arguments [T, c], pc_       *)
(*   exceptions    whether the build has __EXCEPTIONS                      *)
(*   st            the heap: Py_None is object 1, the callable object 2    *)
(*   pyargs, idx   the argument tuple and the idx of the running ArgIn     *)
(*   result, rv    the callable's result and the value returned            *)
(*   gil           how many GilLock objects of this thread are alive       *)
(*   conv          the idx of every Clif_PyObjFrom call made, in order     *)
(*   failed        the idx whose conversion failed, -1 when none did       *)
(*   called        how often the callable was invoked                      *)
(*   handled       how often HandlePyExc was entered                       *)
(*   thrown        whether operator() left by an exception                 *)

\* Most arguments of a callback.
MaxArgs == 3

\* The arguments handed to a callback, each with its type.
ArgChoices ==
    {[T |-> TInt, c |-> NInt(Z(0, 1))],
     [T |-> TFn2, c |-> NFn(<<NV("callable", Z(0, 2), <<>>)>>)],
     [T |-> TFn2, c |-> NFn(<<>>)],
     [T |-> <<"vector", TFn2>>,
      c |-> NSeq(<<NFn(<<NV("callable", Z(0, 2), <<>>)>>), NFn(<<>>)>>)],
     [T |-> <<"optional", TInt>>, c |-> NOpt(<<>>)]}

ReturnTypes == {"int", "PyObject*", "void"}

\* What the host callable does: it returns a new object or raises.
CallOutcomes == {PyInt(0, 5), PyStr(1), Null}

\* The object the callable is, alive in the heap the call starts with.
Callable == 2

InitCallback ==
    /\ at = "operator()"
    /\ \E R \in ReturnTypes, x \in BOOLEAN, fuel \in {-1, 0, 1, 2} :
         \E a \in SeqsUpTo(ArgChoices, MaxArgs) :
            cb = [R |-> R, args |-> a, pc |-> NoopPostConv, exceptions |-> x,
                  st |-> New(H0(NoErr, fuel), PyCallable(Len(a)), 0).st,
                  pyargs |-> 0, idx |-> 0, result |-> 0, rv |-> Indeterminate,
                  gil |-> 0, conv |-> <<>>, failed |-> -1, called |-> 0,
                  handled |-> 0, thrown |-> FALSE]
    /\ err = NoErr
    /\ py = PyNone
    /\ alts = <<>>
    /\ I = 0
    /\ v = NVar(0, <<>>)
    /\ ret = FALSE
    /\ hist = <<>>
    /\ it = NoIt
    /\ io = NoIo

\* GilLock holder; int nargs = sizeof...(T); PyObject* pyargs =
\* PyTuple_New(nargs); and the test that guards the first ArgIn.
EnterStep(c) ==
    LET nargs == Len(c.args)
        pyargs == Alloc(c.st, PyTuple(<<>>), nargs)
    IN  [c |-> [c EXCEPT !.gil = @ + 1, !.st = pyargs.st, !.pyargs = pyargs.v],
         at |-> IF pyargs.v # 0 /\ nargs # 0 THEN "ArgIn" ELSE "check"]

Enter ==
    /\ at = "operator()"
    /\ cb' = EnterStep(cb).c
    /\ at' = EnterStep(cb).at
    /\ UNCHANGED <<err, py, alts, I, v, ret, hist, it, io>>

\* ArgIn that goes on after a failed conversion: no Py_CLEAR(*a) and no test
\* of *a.
ArgIn_NoClear ==
    /\ at = "ArgIn"
    /\ IF cb.idx = Len(cb.args)
       THEN /\ at' = "check"
            /\ cb' = cb
       ELSE LET a == cb.args[cb.idx + 1]
                x == Clif_PyObjFrom(a.T, a.c, Get(cb.pc, cb.idx), cb.st)
            IN  /\ cb' = [cb EXCEPT
                            !.conv = Append(@, cb.idx),
                            !.st = IF x.v = 0 THEN x.st
                                   ELSE SET_ITEM(x.st, cb.pyargs, cb.idx, x.v),
                            !.failed = IF x.v = 0 /\ @ = -1 THEN cb.idx ELSE @,
                            !.idx = @ + 1]
                /\ at' = "ArgIn"
    /\ UNCHANGED <<err, py, alts, I, v, ret, hist, it, io>>

\* One call of callback::ArgIn(a, idx, pc, c1, c...): the overload without
\* arguments when idx == nargs, else the template.
ArgInStep(c) ==
    IF c.idx = Len(c.args) \/ c.pyargs = 0
    THEN [c |-> c, at |-> "check"]
    ELSE LET a == c.args[c.idx + 1]
             x == Clif_PyObjFrom(a.T, a.c, Get(c.pc, c.idx), c.st)
         IN  [c |-> [c EXCEPT
                       !.conv = Append(@, c.idx),
                       !.st = IF x.v = 0 THEN Py_DECREF(x.st, c.pyargs)
                              ELSE SET_ITEM(x.st, c.pyargs, c.idx, x.v),
                       !.pyargs = IF x.v = 0 THEN 0 ELSE @,
                       !.failed = IF x.v = 0 THEN c.idx ELSE @,
                       !.idx = @ + 1],
              at |-> "ArgIn"]

ArgIn ==
    /\ at = "ArgIn"
    /\ cb' = ArgInStep(cb).c
    /\ at' = ArgInStep(cb).at
    /\ UNCHANGED <<err, py, alts, I, v, ret, hist, it, io>>

\* if (!pyargs || PyErr_Occurred()) { Py_XDECREF(pyargs); ... } else ...
CheckStep(c) ==
    IF c.pyargs = 0 \/ PyErr_Occurred(c.st.err)
    THEN [c |-> [c EXCEPT !.st = Py_XDECREF(@, c.pyargs), !.result = 0],
          at |-> "FromPyValue"]
    ELSE [c |-> c, at |-> "call"]

Check ==
    /\ at = "check"
    /\ cb' = CheckStep(cb).c
    /\ at' = CheckStep(cb).at
    /\ UNCHANGED <<err, py, alts, I, v, ret, hist, it, io>>

\* PyObject* result = PyObject_CallObject(callback_.get(), pyargs);
\* Py_DECREF(pyargs); for each thing the callable may do.
CallSteps(c) ==
    {LET r == IF out = Null
              THEN [v |-> 0, st |-> [c.st EXCEPT !.err = "RuntimeError"]]
              ELSE New(c.st, out, 0)
     IN  [c |-> [c EXCEPT !.called = @ + 1, !.result = r.v,
                          !.st = Py_DECREF(r.st, c.pyargs)],
          at |-> "FromPyValue"] : out \in CallOutcomes}

Call ==
    /\ at = "call"
    /\ \E n \in CallSteps(cb) : cb' = n.c /\ at' = n.at
    /\ UNCHANGED <<err, py, alts, I, v, ret, hist, it, io>>

\* HandlePyExc(): throws with __EXCEPTIONS, else PyErr_PrintEx(1), which
\* clears the error.
HandlePyExc(c) ==
    [c EXCEPT !.handled = @ + 1, !.thrown = c.exceptions,
              !.st.err = IF c.exceptions THEN @ ELSE NoErr]

\* FromPyValue whose primary template returns r without looking at ok.
FromPyValue_Unchecked(c) ==
    CASE c.R = "int" ->
           IF PyErr_Occurred(c.st.err)
           THEN [HandlePyExc([c EXCEPT !.st = Py_XDECREF(@, c.result)])
                   EXCEPT !.rv = ValueInit(TInt)]
           ELSE LET r == Clif_PyObjAs(TInt, Shape(c.st, c.result),
                                      DefaultInit(TInt), c.st.err)
                IN  [c EXCEPT !.st = Py_DECREF([@ EXCEPT !.err = r.err], c.result),
                              !.rv = r.c]
      [] c.R = "PyObject*" ->
           LET c1 == IF PyErr_Occurred(c.st.err) THEN HandlePyExc(c) ELSE c
           IN  [c1 EXCEPT !.rv = NV("PyObject*", Z(0, c.result), <<>>)]
      [] c.R = "void" ->
           LET c1 == [c EXCEPT !.st = Py_XDECREF(@, c.result)]
           IN  IF PyErr_Occurred(c1.st.err) THEN HandlePyExc(c1) ELSE c1

\* ReturnValue<R>::FromPyValue(result), the primary template and the
\* specializations for PyObject* and void.
FromPyValue(c) ==
    CASE c.R = "int" ->
           IF PyErr_Occurred(c.st.err)
           THEN [HandlePyExc([c EXCEPT !.st = Py_XDECREF(@, c.result)])
                   EXCEPT !.rv = ValueInit(TInt)]
           ELSE LET r == Clif_PyObjAs(TInt, Shape(c.st, c.result),
                                      DefaultInit(TInt), c.st.err)
                    c1 == [c EXCEPT !.st = Py_DECREF([@ EXCEPT !.err = r.err], c.result),
                                    !.rv = r.c]
                IN  IF ~r.ok THEN HandlePyExc(c1) ELSE c1
      [] c.R = "PyObject*" ->
           LET c1 == IF PyErr_Occurred(c.st.err) THEN HandlePyExc(c) ELSE c
           IN  [c1 EXCEPT !.rv = NV("PyObject*", Z(0, c.result), <<>>)]
      [] c.R = "void" ->
           LET c1 == [c EXCEPT !.st = Py_XDECREF(@, c.result)]
           IN  IF PyErr_Occurred(c1.st.err) THEN HandlePyExc(c1) ELSE c1

\* return ReturnValue<R>().FromPyValue(result);
ResultStep(c) == [c |-> FromPyValue(c), at |-> "~GilLock"]

Convert_Result ==
    /\ at = "FromPyValue"
    /\ cb' = ResultStep(cb).c
    /\ at' = ResultStep(cb).at
    /\ UNCHANGED <<err, py, alts, I, v, ret, hist, it, io>>

\* ~GilLock() as operator() returns or unwinds.
LeaveStep(c) == [c |-> [c EXCEPT !.gil = @ - 1], at |-> "returned"]

Leave ==
    /\ at = "~GilLock"
    /\ cb' = LeaveStep(cb).c
    /\ at' = LeaveStep(cb).at
    /\ UNCHANGED <<err, py, alts, I, v, ret, hist, it, io>>

NextCallback == Enter \/ ArgIn \/ Check \/ Call \/ Convert_Result \/ Leave

SpecCallback == InitCallback /\ [][NextCallback]_vars

\* C10: the arguments are converted in the order 0, 1, ...; once argument k
\* has failed to convert, no argument after k is converted, the argument
\* tuple and the converted arguments 0..k-1 (with whatever the failed
\* conversion had built) are all released, none twice, the tuple pointer is
\* null so that nothing releases it again, and the callable is not invoked.
C10_ArgInShortCircuit ==
    cb.R # "none" =>
        /\ \A j \in 1..Len(cb.conv) : cb.conv[j] = j - 1
        /\ ~cb.st.dbl
        /\ cb.failed # -1 =>
              /\ Len(cb.conv) = cb.failed + 1
              /\ cb.called = 0
              /\ cb.pyargs = 0
              /\ \A x \in (Callable + 1)..Len(cb.st.rc) : cb.st.rc[x] = 0
              /\ cb.st.rc[1] = 1
              /\ cb.st.rc[Callable] = 1

\* Three arguments of which the second fails: the tuple and the first
\* argument were created and released, the third was never converted, and
\* the call returned without invoking the callable.
C10_Witness ==
    /\ at = "returned"
    /\ cb.R # "none"
    /\ Len(cb.args) = 3
    /\ cb.failed = 1
    /\ cb.conv = <<0, 1>>
    /\ cb.called = 0
    /\ Len(cb.st.rc) = 4
    /\ cb.st.rc[3] = 0 /\ cb.st.rc[4] = 0

\* The three stages of a call that is over, as it left them: the argument
\* stage failed if the tuple is gone and the callable was never invoked, the
\* host call failed if it returned null, the result conversion failed if the
\* object returned does not convert to R.
ArgStageFailed(c) == c.called = 0 /\ c.pyargs = 0

CallFailed(c) == c.called = 1 /\ c.result = 0

ResultFailed(c) ==
    /\ c.called = 1
    /\ c.result # 0
    /\ c.R = "int"
    /\ ~Clif_PyObjAs(TInt, Shape(c.st, c.result), DefaultInit(TInt), NoErr).ok

\* C12: when operator() has returned or unwound, HandlePyExc was invoked
\* (once) if the argument conversion, the host call or the result conversion
\* failed, for each of the return types; and if it was not invoked, all
\* three stages succeeded.
C12_FailuresEscalated ==
    (cb.R # "none" /\ at \in {"~GilLock", "returned"}) =>
        /\ cb.handled <= 1
        /\ cb.handled = 1 <=>
              (ArgStageFailed(cb) \/ CallFailed(cb) \/ ResultFailed(cb))
        /\ cb.called <= 1
        /\ cb.called = 0 => ArgStageFailed(cb)

\* A callback returning int whose callable returned a str: the result
\* conversion failed and HandlePyExc was invoked.
C12_Witness ==
    /\ at = "returned"
    /\ cb.R = "int"
    /\ cb.called = 1
    /\ cb.failed = -1
    /\ Shape(cb.st, cb.result) = PyStr(1)
    /\ cb.handled = 1

----------------------------------------------------------------------------
(* Several threads, each invoking a callback once.  cb holds               *)
(*   holder   the thread that has the GIL, 0 when it is free               *)
(*   depth    per thread, the PyGILState_Ensure calls not yet released     *)
(*   th       per thread: c, the record of its operator() call as above;   *)
(*            at, its position; d0, its depth when it entered; acq and     *)
(*            rel, the PyGILState_Ensure and PyGILState_Release calls made *)
(* A thread enters either as a native thread without the GIL or from host  *)
(* code that has it.                                                       *)

\* How many threads invoke callbacks.
NThreads == 2

Threads == 1..NThreads

\* The positions of operator() between GilLock() and ~GilLock().
Inside == {"ArgIn", "check", "call", "FromPyValue", "~GilLock"}

\* The calls the threads make.
ThreadArgs == {<<>>, <<[T |-> TInt, c |-> NInt(Z(0, 1))]>>, <<[T |-> TFn2, c |-> NFn(<<>>)]>>}

ThreadCall(R, a, x) ==
    [R |-> R, args |-> a, pc |-> NoopPostConv, exceptions |-> x,
     st |-> New(H0(NoErr, -1), PyCallable(Len(a)), 0).st,
     pyargs |-> 0, idx |-> 0, result |-> 0, rv |-> Indeterminate,
     gil |-> 0, conv |-> <<>>, failed |-> -1, called |-> 0,
     handled |-> 0, thrown |-> FALSE]

InitThreads ==
    /\ at = "threads"
    /\ \E x \in BOOLEAN, h \in {0} \cup Threads :
         \E Rs \in [Threads -> ReturnTypes], as \in [Threads -> ThreadArgs] :
            cb = [holder |-> h,
                  depth |-> [t \in Threads |-> IF t = h THEN 1 ELSE 0],
                  th |-> [t \in Threads |->
                            [c |-> ThreadCall(Rs[t], as[t], x), at |-> "operator()",
                             d0 |-> IF t = h THEN 1 ELSE 0, acq |-> 0, rel |-> 0]]]
    /\ err = NoErr
    /\ py = PyNone
    /\ alts = <<>>
    /\ I = 0
    /\ v = NVar(0, <<>>)
    /\ ret = FALSE
    /\ hist = <<>>
    /\ it = NoIt
    /\ io = NoIo

\* PyGILState_Ensure returns once the GIL is the calling thread's.
PyGILState_Ready(g, t) == g.holder \in {0, t}

PyGILState_Ensure(g, t) ==
    [g EXCEPT !.holder = t, !.depth[t] = @ + 1, !.th[t].acq = @ + 1]

\* PyGILState_Release: the release that matches the first Ensure gives the
\* GIL up.
PyGILState_Release(g, t) ==
    [g EXCEPT !.holder = IF g.depth[t] = 1 THEN 0 ELSE @, !.depth[t] = @ - 1,
              !.th[t].rel = @ + 1]

\* The thread's operator() moves on to n.
Advance(g, t, n) == [g EXCEPT !.th[t].c = n.c, !.th[t].at = n.at]

\* operator() entered without GilLock holder.
GilEnter_NoLock ==
    /\ at = "threads"
    /\ \E t \in Threads :
         /\ cb.th[t].at = "operator()"
         /\ cb' = Advance(cb, t, EnterStep(cb.th[t].c))
    /\ UNCHANGED <<at, err, py, alts, I, v, ret, hist, it, io>>

\* GilLock holder; PyTuple_New(nargs).
GilEnter ==
    /\ at = "threads"
    /\ \E t \in Threads :
         /\ cb.th[t].at = "operator()"
         /\ PyGILState_Ready(cb, t)
         /\ cb' = Advance(PyGILState_Ensure(cb, t), t, EnterStep(cb.th[t].c))
    /\ UNCHANGED <<at, err, py, alts, I, v, ret, hist, it, io>>

GilArgIn ==
    /\ at = "threads"
    /\ \E t \in Threads :
         /\ cb.th[t].at = "ArgIn"
         /\ cb' = Advance(cb, t, ArgInStep(cb.th[t].c))
    /\ UNCHANGED <<at, err, py, alts, I, v, ret, hist, it, io>>

GilCheck ==
    /\ at = "threads"
    /\ \E t \in Threads :
         /\ cb.th[t].at = "check"
         /\ cb' = Advance(cb, t, CheckStep(cb.th[t].c))
    /\ UNCHANGED <<at, err, py, alts, I, v, ret, hist, it, io>>

GilCall ==
    /\ at = "threads"
    /\ \E t \in Threads :
         /\ cb.th[t].at = "call"
         /\ \E n \in CallSteps(cb.th[t].c) : cb' = Advance(cb, t, n)
    /\ UNCHANGED <<at, err, py, alts, I, v, ret, hist, it, io>>

GilResult ==
    /\ at = "threads"
    /\ \E t \in Threads :
         /\ cb.th[t].at = "FromPyValue"
         /\ cb' = Advance(cb, t, ResultStep(cb.th[t].c))
    /\ UNCHANGED <<at, err, py, alts, I, v, ret, hist, it, io>>

\* ~GilLock(), on return and on unwinding alike.
GilLeave ==
    /\ at = "threads"
    /\ \E t \in Threads :
         /\ cb.th[t].at = "~GilLock"
         /\ cb' = Advance(PyGILState_Release(cb, t), t, LeaveStep(cb.th[t].c))
    /\ UNCHANGED <<at, err, py, alts, I, v, ret, hist, it, io>>

\* Host code that called the callback with the GIL gives it up afterwards.
GilYield ==
    /\ at = "threads"
    /\ \E t \in Threads :
         /\ cb.th[t].at = "returned"
         /\ cb.holder = t
         /\ cb' = [cb EXCEPT !.holder = 0, !.depth[t] = 0, !.th[t].at = "gone"]
    /\ UNCHANGED <<at, err, py, alts, I, v, ret, hist, it, io>>

NextThreads ==
    GilEnter \/ GilArgIn \/ GilCheck \/ GilCall \/ GilResult \/ GilLeave \/ GilYield

SpecThreads == InitThreads /\ [][NextThreads]_vars

\* C11: a thread that is between GilLock() and ~GilLock() of operator(), in
\* argument conversion, the host call or result conversion, holds the GIL,
\* so no two threads are there at once; and when its call has returned or
\* unwound the thread has made one PyGILState_Ensure and one
\* PyGILState_Release and holds the GIL exactly if it did before the call.
C11_GilHeldThroughout ==
    at = "threads" =>
        /\ \A t \in Threads :
              cb.th[t].at \in Inside =>
                  /\ cb.holder = t
                  /\ cb.depth[t] = cb.th[t].d0 + 1
                  /\ cb.th[t].c.gil = 1
        /\ \A t, u \in Threads :
              (cb.th[t].at \in Inside /\ cb.th[u].at \in Inside) => t = u
        /\ \A t \in Threads :
              cb.th[t].at = "returned" =>
                  /\ cb.th[t].acq = 1 /\ cb.th[t].rel = 1
                  /\ cb.th[t].c.gil = 0
                  /\ cb.depth[t] = cb.th[t].d0
                  /\ (cb.holder = t) <=> (cb.th[t].d0 = 1)

\* Thread 1 has left through HandlePyExc's exception, having released the
\* GIL once, and thread 2 is converting the host result with the GIL.
C11_Witness ==
    /\ at = "threads"
    /\ cb.th[1].at = "returned"
    /\ cb.th[1].c.thrown
    /\ cb.th[1].d0 = 0
    /\ cb.th[1].rel = 1
    /\ cb.th[2].at = "FromPyValue"
    /\ cb.th[2].c.called = 1
    /\ cb.holder = 2

----------------------------------------------------------------------------
(* The life of callback::Func objects made for one callable by one thread: *)
(* the constructor, the copies std::function makes, and the deleter of     *)
(* callback_ that runs when the last copy goes.  cb holds                  *)
(*   ext      the references to the callable held by others                *)
(*   rc       the callable's reference count                               *)
(*   f        for each Func, where it is and callback_.use_count()         *)
(*   depth    the GilLock objects and other GIL holds of the thread        *)
(*   log      the Py_INCREF and Py_CLEAR made, each with its Func and the  *)
(*            depth it ran at                                              *)

\* Func objects constructed for the callable.
NFuncs == 2

\* Most references to the callable held by others.
MaxExt == 2

\* Most copies of one Func alive at once.
MaxCopies == 3

Funcs == 1..NFuncs

InitFunc ==
    /\ at = "Func"
    /\ \E r \in 1..MaxExt, d \in 0..1 :
         cb = [R |-> "Func", ext |-> r, rc |-> r, depth |-> d, d0 |-> d,
               f |-> [f \in Funcs |-> [at |-> "Func", copies |-> 0]],
               log |-> <<>>]
    /\ err = NoErr
    /\ py = PyNone
    /\ alts = <<>>
    /\ I = 0
    /\ v = NVar(0, <<>>)
    /\ ret = FALSE
    /\ hist = <<>>
    /\ it = NoIt
    /\ io = NoIo

\* The thread is in no constructor and no deleter.
Idle == \A f \in Funcs : cb.f[f].at \in {"Func", "live", "dead"}

\* Func(callable, pc): callback_ and pc_ are initialized, GilLock holder.
FuncInit(f) ==
    /\ Idle
    /\ cb.f[f].at = "Func"
    /\ cb' = [cb EXCEPT !.f[f] = [at |-> "Py_INCREF", copies |-> 1],
                        !.depth = @ + 1]
    /\ UNCHANGED <<at, err, py, alts, I, v, ret, hist, it, io>>

\* Py_INCREF(callable); and ~GilLock as the constructor returns.
FuncIncref(f) ==
    /\ cb.f[f].at = "Py_INCREF"
    /\ cb' = [cb EXCEPT !.f[f].at = "live", !.rc = @ + 1, !.depth = @ - 1,
                        !.log = Append(@, [op |-> "Py_INCREF", f |-> f,
                                           depth |-> cb.depth])]
    /\ UNCHANGED <<at, err, py, alts, I, v, ret, hist, it, io>>

\* The copy constructor: callback_ is copied, the holder is shared.
FuncCopy(f) ==
    /\ Idle
    /\ cb.f[f].at = "live"
    /\ cb.f[f].copies < MaxCopies
    /\ cb' = [cb EXCEPT !.f[f].copies = @ + 1]
    /\ UNCHANGED <<at, err, py, alts, I, v, ret, hist, it, io>>

\* A destructor that runs the deleter for every copy.
FuncDestroy_EachCopy(f) ==
    /\ Idle
    /\ cb.f[f].at = "live"
    /\ cb' = [cb EXCEPT !.f[f] = [at |-> "deleter", copies |-> @.copies - 1],
                        !.depth = @ + 1]
    /\ UNCHANGED <<at, err, py, alts, I, v, ret, hist, it, io>>

\* ~Func: callback_ is destroyed; the deleter starts when it was the last,
\* with GilLock holder.
FuncDestroy(f) ==
    /\ Idle
    /\ cb.f[f].at = "live"
    /\ IF cb.f[f].copies > 1
       THEN cb' = [cb EXCEPT !.f[f].copies = @ - 1]
       ELSE cb' = [cb EXCEPT !.f[f] = [at |-> "deleter", copies |-> 0],
                             !.depth = @ + 1]
    /\ UNCHANGED <<at, err, py, alts, I, v, ret, hist, it, io>>

\* Py_CLEAR(obj); and ~GilLock as the deleter returns.
FuncDeleter(f) ==
    /\ cb.f[f].at = "deleter"
    /\ cb' = [cb EXCEPT !.f[f].at = IF cb.f[f].copies > 0 THEN "live" ELSE "dead",
                        !.rc = @ - 1, !.depth = @ - 1,
                        !.log = Append(@, [op |-> "Py_CLEAR", f |-> f,
                                           depth |-> cb.depth])]
    /\ UNCHANGED <<at, err, py, alts, I, v, ret, hist, it, io>>

\* Another holder of the callable lets go of its reference; the last one
\* only once a Func exists.
ExtRelease ==
    /\ Idle
    /\ cb.ext > 0
    /\ cb.ext = 1 => \E f \in Funcs : cb.f[f].at = "live"
    /\ cb' = [cb EXCEPT !.ext = @ - 1, !.rc = @ - 1]
    /\ UNCHANGED <<at, err, py, alts, I, v, ret, hist, it, io>>

\* Another holder takes a reference.
ExtAcquire ==
    /\ Idle
    /\ cb.rc > 0
    /\ cb.ext < MaxExt
    /\ cb' = [cb EXCEPT !.ext = @ + 1, !.rc = @ + 1]
    /\ UNCHANGED <<at, err, py, alts, I, v, ret, hist, it, io>>

NextFunc ==
    \/ \E f \in Funcs :
         FuncInit(f) \/ FuncIncref(f) \/ FuncCopy(f) \/ FuncDestroy(f)
             \/ FuncDeleter(f)
    \/ ExtRelease
    \/ ExtAcquire

SpecFunc == InitFunc /\ [][NextFunc]_vars

\* The Py_INCREF or Py_CLEAR calls made so far for one Func.
Logged(op, f) == {j \in 1..Len(cb.log) : cb.log[j].op = op /\ cb.log[j].f = f}

\* The Funcs that hold their reference.
Owning == {f \in Funcs : cb.f[f].at \in {"live", "deleter"}}

\* C14: over the references others hold, each constructed Func holds exactly
\* one reference to the callable, however many copies of it there are, so
\* the callable is alive while a copy exists; the reference is taken by one
\* Py_INCREF in the constructor and given back by one Py_CLEAR, made after
\* the last copy is destroyed, both with the GIL held.
C14_OneOwnedReference ==
    cb.R = "Func" =>
        /\ cb.rc = cb.ext + Cardinality(Owning)
        /\ \A f \in Funcs :
             /\ cb.f[f].at = "live" => cb.f[f].copies >= 1 /\ cb.rc >= 1
             /\ cb.f[f].at \in {"deleter", "dead"} => cb.f[f].copies = 0
             /\ Cardinality(Logged("Py_INCREF", f)) =
                    IF cb.f[f].at \in {"Func", "Py_INCREF"} THEN 0 ELSE 1
             /\ Cardinality(Logged("Py_CLEAR", f)) =
                    IF cb.f[f].at = "dead" THEN 1 ELSE 0
        /\ \A j \in 1..Len(cb.log) : cb.log[j].depth >= 1
        /\ Idle => cb.depth = cb.d0

\* A Func copied up to MaxCopies and destroyed as often, in a thread that
\* did not have the GIL, while nobody else holds the callable any more and
\* no other Func was made: the one Py_CLEAR ran with the GIL and freed the
\* callable.
C14_Witness ==
    /\ cb.R = "Func"
    /\ cb.f[1].at = "dead"
    /\ cb.f[2].at = "Func"
    /\ cb.d0 = 0
    /\ cb.ext = 0
    /\ cb.rc = 0
    /\ cb.log = <<[op |-> "Py_INCREF", f |-> 1, depth |-> 1],
                  [op |-> "Py_CLEAR", f |-> 1, depth |-> 1]>>

====
